---- MODULE Spec2Model ----
(***************************************************************************)
(* pgimp: GimpScriptRunner drives a gimp child process.  The model covers  *)
(* the life of one invocation (spawn, optional process-tree verification,  *)
(* the timed exchange, cleanup) and the classification of the child's      *)
(* stdout/stderr.  Texts are sequences of one-character strings, so that   *)
(* find/strip/split/rsplit act on the same positions as in the code.       *)
(***************************************************************************)
EXTENDS Integers, Sequences, FiniteSets, TLC

(***************************************************************************)
(* Text primitives (python str methods, 0-based positions as in python).   *)
(***************************************************************************)
NL == "\n"

Whitespace == {" ", NL, "\t", "\r"}

MinOf(S) == CHOOSE m \in S : \A o \in S : m <= o

MaxOf(S) == CHOOSE m \in S : \A o \in S : m >= o

\* input[k:]
SliceFrom(s, k) == SubSeq(s, k + 1, Len(s))

\* input[:k]
SliceTo(s, k) == SubSeq(s, 1, k)

\* str.startswith
StartsWith(s, p) == Len(s) >= Len(p) /\ SubSeq(s, 1, Len(p)) = p

\* the positions at which sub occurs in s
Occurrences(s, sub) ==
    {i \in 0..(Len(s) - Len(sub)) : SubSeq(s, i + 1, i + Len(sub)) = sub}

\* str.find(sub, start): lowest position >= start, -1 when there is none
Find(s, sub, start) ==
    LET cands == {i \in Occurrences(s, sub) : i >= start}
    IN  IF cands = {} THEN -1 ELSE MinOf(cands)

\* str.rfind(sub)
RFind(s, sub) ==
    IF Occurrences(s, sub) = {} THEN -1 ELSE MaxOf(Occurrences(s, sub))

\* str.strip(): leading and trailing whitespace removed
Strip(s) ==
    LET keep == {i \in 1..Len(s) : s[i] \notin Whitespace}
    IN  IF keep = {} THEN <<>> ELSE SubSeq(s, MinOf(keep), MaxOf(keep))

RECURSIVE Split(_)
\* str.split('\n'): always at least one (possibly empty) line
Split(s) ==
    LET p == Find(s, <<NL>>, 0)
    IN  IF p = -1 THEN <<s>>
        ELSE <<SliceTo(s, p)>> \o Split(SliceFrom(s, p + 1))

\* str.rsplit('\n', 1)[0]: the text before the last newline, all of it when
\* there is no newline
RSplitHead(s) ==
    LET p == RFind(s, <<NL>>)
    IN  IF p = -1 THEN s ELSE SliceTo(s, p)

RECURSIVE Join(_)
\* '\n'.join(lines)
Join(lines) ==
    IF Len(lines) = 0 THEN <<>>
    ELSE IF Len(lines) = 1 THEN lines[1]
    ELSE lines[1] \o <<NL>> \o Join(Tail(lines))

\* lines[-1]
LastOf(lines) == lines[Len(lines)]

\* the characters of a text
Range(s) == {s[k] : k \in 1..Len(s)}

(***************************************************************************)
(* Results of calls: a value returned or an exception raised.              *)
(***************************************************************************)
Returned(v) == [kind |-> "return", value |-> v]

Raised(exc, msg) == [kind |-> exc, value |-> msg]

NotCalled == [kind |-> "none", value |-> <<>>]

(***************************************************************************)
(* strip_gimp_warnings                                                     *)
(***************************************************************************)
GIMP_WARNING_START == <<"\n", "(", "g", "i", "m", "p", ":">>

to_find == <<"\n", "\n", "(", "g", "i", "m", "p", ":">>

NO_OUTPUT_START == <<"Could not find start of output after gimp warnings.">>

\* faulty variant: the scan stops at the first warning block
LastWarningPosFirstOnly(input, pos) == pos

RECURSIVE LastWarningPos(_, _)
\* the while loop: last_pos when find(to_find, pos + len(to_find)) gives -1
LastWarningPos(input, pos) ==
    LET nxt == Find(input, to_find, pos + Len(to_find))
    IN  IF nxt = -1 THEN pos ELSE LastWarningPos(input, nxt)

\* faulty variant: the newline that ends the warnings is kept
strip_gimp_warnings_from_newline(input) ==
    IF StartsWith(input, GIMP_WARNING_START)
    THEN LET last_pos == LastWarningPos(input, 0)
             output_start == Find(input, <<NL>>, last_pos + Len(to_find))
         IN  IF output_start = -1
             THEN Raised("GimpException", NO_OUTPUT_START)
             ELSE Returned(SliceFrom(input, output_start))
    ELSE Returned(input)

\* faulty variant: the newline is looked for right behind the marker the
\* input begins with
strip_gimp_warnings_behind_marker(input) ==
    IF StartsWith(input, GIMP_WARNING_START)
    THEN LET last_pos == LastWarningPos(input, 0)
             output_start == Find(input, <<NL>>,
                                  IF last_pos = 0 THEN Len(GIMP_WARNING_START)
                                  ELSE last_pos + Len(to_find))
         IN  IF output_start = -1
             THEN Raised("GimpException", NO_OUTPUT_START)
             ELSE Returned(SliceFrom(input, output_start + 1))
    ELSE Returned(input)

strip_gimp_warnings(input) ==
    IF StartsWith(input, GIMP_WARNING_START)
    THEN LET last_pos == LastWarningPos(input, 0)
             output_start == Find(input, <<NL>>, last_pos + Len(to_find))
         IN  IF output_start = -1
             THEN Raised("GimpException", NO_OUTPUT_START)
             ELSE Returned(SliceFrom(input, output_start + 1))
    ELSE Returned(input)

(***************************************************************************)
(* Byte/text conversions.  A byte is its ASCII character, or HIGH_BYTE for *)
(* a byte above 127; HIGH_CHAR is the latin1 character of that byte.       *)
(***************************************************************************)
HIGH_BYTE == "0xFF"

HIGH_CHAR == "U+00FF"

\* faulty variant: a byte above 127 is replaced
decode_latin1_lossy(bytes) ==
    [i \in 1..Len(bytes) |-> IF bytes[i] = HIGH_BYTE THEN "?" ELSE bytes[i]]

\* bytes.decode('latin1'): every byte is one character
decode_latin1(bytes) ==
    [i \in 1..Len(bytes) |-> IF bytes[i] = HIGH_BYTE THEN HIGH_CHAR ELSE bytes[i]]

\* str.encode('latin1')
encode_latin1(text) ==
    [i \in 1..Len(text) |-> IF text[i] = HIGH_CHAR THEN HIGH_BYTE ELSE text[i]]

\* bytes.decode(): utf-8; the byte 0xFF is valid nowhere in utf-8
decode_utf8(bytes) ==
    IF \E i \in 1..Len(bytes) : bytes[i] = HIGH_BYTE
    THEN Raised("UnicodeDecodeError", <<"invalid start byte">>)
    ELSE Returned(bytes)

(***************************************************************************)
(* strip_initialization_warnings                                           *)
(***************************************************************************)
INIT_WARNING == <<"*", "W", "A", "R", "N", "I", "N", "G", "*">>

\* faulty variant: the lines are kept from the first warning line on
strip_initialization_warnings_keep(error_lines) == error_lines

\* faulty variant: the lines are cut behind the first warning line
strip_initialization_warnings_first(error_lines) ==
    LET warned == {i \in 1..Len(error_lines) : StartsWith(error_lines[i], INIT_WARNING)}
        strip_idx == IF warned = {} THEN 0 ELSE MinOf(warned)
        kept == SubSeq(error_lines, strip_idx + 1, Len(error_lines))
    IN  IF kept = <<<<>>>> THEN <<>> ELSE kept

strip_initialization_warnings(error_lines) ==
    LET warned == {i \in 1..Len(error_lines) : StartsWith(error_lines[i], INIT_WARNING)}
        \* 0-based strip_idx = i + 1 for the last warning line i, 0 without one
        strip_idx == IF warned = {} THEN 0 ELSE MaxOf(warned)
        kept == SubSeq(error_lines, strip_idx + 1, Len(error_lines))
    IN  IF kept = <<<<>>>> THEN <<>> ELSE kept

(***************************************************************************)
(* Classification of the exchange's result (_send_to_gimp, after           *)
(* communicate has returned).                                              *)
(***************************************************************************)
SCRIPT_ERROR_TOKEN ==
    <<"_", "_", "G", "I", "M", "P", "_", "S", "C", "R", "I", "P", "T", "_",
      "E", "R", "R", "O", "R", "_", "_">>

\* what the exception hook writes after the traceback
SENTINEL_LINE == SCRIPT_ERROR_TOKEN \o <<" ", "1">>

ANONYMOUS_SOURCE ==
    <<"F", "i", "l", "e", " ", "\"", "<", "s", "t", "r", "i", "n", "g", ">", "\"">>

\* 'File "{:s}"'.format(file)
FileReference(file) == <<"F", "i", "l", "e", " ", "\"", file, "\"">>

\* faulty variant: nothing is replaced
ReplaceNone(s, old, new) == s

\* str.replace(old, new, 1)
ReplaceFirst(s, old, new) ==
    LET p == Find(s, old, 0)
    IN  IF p = -1 THEN s
        ELSE SliceTo(s, p) \o new \o SliceFrom(s, p + Len(old))

ReturnedNone == [kind |-> "return_none", value |-> <<>>]

IsRaise(r) == r.kind \notin {"return", "return_none", "none"}

\* faulty variant: the sentinel is looked for anywhere in the last line
EndsWithScriptErrorAnywhere(text) ==
    Occurrences(LastOf(Split(Strip(text))), SCRIPT_ERROR_TOKEN) # {}

\* text.strip().split('\n')[-1].startswith('__GIMP_SCRIPT_ERROR__')
EndsWithScriptError(text) ==
    StartsWith(LastOf(Split(Strip(text))), SCRIPT_ERROR_TOKEN)

\* stderr_content.rsplit('\n', 1)[0] + '\n'
ErrorString(stderr_content) == RSplitHead(stderr_content) \o <<NL>>

\* lines 457-466: the exception raised for the error-bearing content, NotCalled
\* when there is none
RaiseForErrors(stderr_content, file) ==
    IF stderr_content = <<>> THEN NotCalled
    ELSE LET error_lines == Split(Strip(stderr_content)) IN
         IF EndsWithScriptError(stderr_content)
         THEN LET error_string == ErrorString(stderr_content)
              IN  Raised("GimpScriptException",
                         IF file # "None"
                         THEN ReplaceFirst(error_string, ANONYMOUS_SOURCE, FileReference(file))
                         ELSE error_string)
         ELSE LET remaining == strip_initialization_warnings(error_lines)
              IN  IF remaining # <<>>
                  THEN Raised("GimpScriptException", Join(remaining))
                  ELSE NotCalled

\* lines 468-474
Payload(stdout, stdout_content, binary, output_stream) ==
    IF binary
    THEN LET stripped == strip_gimp_warnings(decode_latin1(stdout))
         IN  IF IsRaise(stripped) THEN stripped
             ELSE Returned(encode_latin1(stripped.value))
    ELSE IF output_stream THEN ReturnedNone
    ELSE strip_gimp_warnings(stdout_content)

\* lines 440-466 once stdout_content is known
ClassifyErrors(stdout, stderr, stdout_content, binary, output_stream, error_stream, file) ==
    LET decoded_err == IF error_stream THEN Returned(<<>>) ELSE decode_utf8(stderr) IN
    IF IsRaise(decoded_err) THEN decoded_err ELSE
    LET stripped_err == IF error_stream THEN Returned(<<>>)
                        ELSE strip_gimp_warnings(decoded_err.value) IN
    IF IsRaise(stripped_err) THEN stripped_err ELSE
    LET stripped_out == IF binary THEN strip_gimp_warnings(decode_latin1(stdout))
                        ELSE Returned(stdout_content) IN
    IF IsRaise(stripped_out) THEN stripped_out ELSE
    LET stdout_with_possible_errors == stripped_out.value
        in_stdout == ~output_stream /\ EndsWithScriptError(stdout_with_possible_errors)
        \* binary: .encode('latin1').decode()
        recoded == IF in_stdout /\ binary
                   THEN decode_utf8(encode_latin1(stdout_with_possible_errors))
                   ELSE Returned(stdout_with_possible_errors)
    IN  IF IsRaise(recoded) THEN recoded
        ELSE RaiseForErrors(IF in_stdout THEN recoded.value ELSE stripped_err.value, file)

\* lines 432-474: the result of _send_to_gimp for the bytes communicate gave;
\* a stream that went to a caller's sink is not read (communicate gives None)
Classify(stdout, stderr, binary, output_stream, error_stream, file) ==
    IF binary /\ output_stream
    THEN Raised("AttributeError", <<"'NoneType' object has no attribute 'decode'">>)
    ELSE
    LET decoded_out == IF binary \/ output_stream THEN Returned(<<>>)
                       ELSE decode_utf8(stdout) IN
    IF IsRaise(decoded_out) THEN decoded_out ELSE
    LET errors == ClassifyErrors(stdout, stderr, decoded_out.value, binary,
                                 output_stream, error_stream, file)
    IN  IF IsRaise(errors) THEN errors
        ELSE Payload(stdout, decoded_out.value, binary, output_stream)

\* faulty variant: the caller's error sink is never closed
ErrorStreamLeftOpen(stdout, binary, output_stream, error_stream) == FALSE

\* lines 432-442: the caller's error sink is closed once the standard output
\* has been taken over, which fails when it does not decode
ErrorStreamClosed(stdout, binary, output_stream, error_stream) ==
    /\ error_stream
    /\ binary \/ output_stream \/ ~IsRaise(decode_utf8(stdout))

\* lines 432-436: the caller's output sink is closed in text mode only
OutputStreamClosed(binary, output_stream) == output_stream /\ ~binary

(***************************************************************************)
(* State                                                                   *)
(***************************************************************************)
VARIABLES
    host,                 \* the machine: platform, search path, host environment
    execute_scripts_with_process_check,   \* pgimp/__init__.py
    EXECUTABLE_GIMP_PATH, \* process-wide cache, "None" until resolved
    PYTHON2_PYTHONPATH,   \* process-wide cache, "None" until resolved
    environment,          \* self._environment
    file_to_execute,      \* self._file_to_execute
    gimp_process,         \* self._gimp_process: the Popen handle of the child
    pc,                   \* where the caller's invocation stands
    request,              \* the arguments of the invocation in progress
    outcome,              \* what the invocation gave back to the caller
    helper,               \* the python2 process python2_pythonpath spawns
    descendants,          \* processes below the child: name -> absent/running/gone
    process_children,     \* the descendants the last poll listed
    children,             \* the names the last poll read from them
    elapsed,              \* seconds since _wait_for_child_processes_to_start began
    stdin,                \* what communicate wrote to the child's input
    stdout_buf,           \* what the child wrote to its stdout
    stderr_buf,           \* what the child wrote to its stderr
    output_closed,        \* the caller's output_stream is closed
    error_closed,         \* the caller's error_stream is closed
    invocations,          \* invocations begun on this runner
    call_limit,           \* invocations explored on this runner
    writes_left,          \* writes the engine may still do in this run
    strip_input,          \* argument of a direct strip_gimp_warnings call
    strip_result,         \* its result, NotCalled before the call
    parse_returned,       \* what _parse made of the invocation's output
    rt_value,             \* a parameter value handed to the codec
    rt_text,              \* its encoding in the child's environment
    rt_result,            \* what an accessor of pgimp.gimp.parameter read back
    resolver,             \* concurrent calls of path_to_gimp_executable
    engine,               \* the interpreter inside the child: where it is in the program
    strip_again,          \* strip_gimp_warnings applied to its own result
    warning_lines,        \* argument of a direct strip_initialization_warnings call
    warning_result,       \* its result, NotCalled before the call
    warning_raise,        \* what lines 457-466 make of a stderr of these lines
    collections,          \* two GimpFileCollections and the directories that exist
    copy_result           \* what copy_layer_from did, NotCalled before the call

processVars == <<host, execute_scripts_with_process_check, EXECUTABLE_GIMP_PATH,
                 PYTHON2_PYTHONPATH, environment>>

runnerVars == <<file_to_execute, gimp_process, pc, request, outcome, helper,
                descendants, process_children, children, elapsed, stdin,
                stdout_buf, stderr_buf, output_closed, error_closed,
                invocations, call_limit, writes_left, parse_returned>>

stripVars == <<strip_input, strip_result, strip_again>>

roundTripVars == <<rt_value, rt_text, rt_result>>

warningVars == <<warning_lines, warning_result, warning_raise>>

copyVars == <<collections, copy_result>>

pureVars == <<stripVars, roundTripVars, resolver, engine, warningVars, copyVars>>

vars == <<processVars, runnerVars, pureVars>>

(***************************************************************************)
(* The host and the process launcher                                       *)
(***************************************************************************)
Update(a, b) ==
    [k \in DOMAIN a \cup DOMAIN b |-> IF k \in DOMAIN b THEN b[k] ELSE a[k]]

is_linux(h) == h.platform \in {"linux", "linux2"}

is_mac_os(h) == h.platform = "darwin"

\* the four glob patterns of path_to_gimp_executable, in order
MacLocations ==
    << "/Applications/GIMP*.app/Contents/MacOS/gimp",
       "/Applications/Gimp*.app/Contents/MacOS/gimp",
       "~/Applications/GIMP*.app/Contents/MacOS/gimp",
       "~/Applications/Gimp*.app/Contents/MacOS/gimp" >>

RECURSIVE GlobbedPath(_, _, _)
\* the for loop over locations: every location with a match overwrites the path
GlobbedPath(h, i, current) ==
    IF i > Len(MacLocations) THEN current
    ELSE GlobbedPath(h, i + 1, IF h.glob[i] # <<>> THEN h.glob[i][1] ELSE current)

\* faulty variant: the platform is not looked at
path_to_gimp_executable_any(h, cache) ==
    IF cache # "None" THEN Returned(cache) ELSE Returned(GlobbedPath(h, 1, h.which_gimp))

\* the value returned (or the exception) and, when it returns, the cache after
path_to_gimp_executable(h, cache) ==
    IF cache # "None" THEN Returned(cache)
    ELSE IF ~(is_linux(h) \/ is_mac_os(h))
    THEN Raised("GimpUnsupportedOSException",
                <<"Your operating system \"", h.platform, "\" is not supported.">>)
    ELSE IF is_mac_os(h) THEN Returned(GlobbedPath(h, 1, h.which_gimp))
    ELSE Returned(h.which_gimp)

path_to_xvfb_run(h) == h.which_xvfb

is_xvfb_present(h) == path_to_xvfb_run(h) # "None"

FLAG_AUTO_SERVERNUM == "--auto-servernum"

GimpFlags == <<"-i", "-d", "-f", "--batch-interpreter=python-fu-eval", "-b", "-">>

\* faulty variant: the display wrapper is never put in front
CommandWithoutWrapper(h, gimp_path) == <<gimp_path>> \o GimpFlags

\* lines 362-374
Command(h, gimp_path) ==
    (IF is_xvfb_present(h) THEN <<path_to_xvfb_run(h), FLAG_AUTO_SERVERNUM>> ELSE <<>>)
        \o <<gimp_path>> \o GimpFlags

\* python2_pythonpath: the result, and what became of the helper it spawned
python2_pythonpath(h, cache) ==
    IF cache # "None" THEN [helper |-> "none", result |-> Returned(cache)]
    ELSE IF h.python2 = "missing"
    THEN [helper |-> "none",
          result |-> Raised("GimpScriptException",
                            <<"Could not find a python2 installation.">>)]
    ELSE IF h.python2 = "hang"
    THEN [helper |-> "running",
          result |-> Raised("TimeoutExpired", <<"timed out after 5 seconds">>)]
    ELSE IF h.python2 = "stderr"
    THEN [helper |-> "exited",
          result |-> Raised("GimpScriptException",
                            <<"Could not determine python2 site-packages location.">>)]
    ELSE [helper |-> "exited", result |-> Returned("/usr/lib/python2.7/site-packages")]

(***************************************************************************)
(* The parameter codec                                                     *)
(***************************************************************************)
\* python values: a str holds its text in s, bytes hold their bytes in s, a
\* bool is b, an int is i, a float holds twice its value in i (the floats
\* explored are multiples of one half), a list, tuple or dict holds its
\* elements in items, a dict as items of key and value
PyStr(s) == [s |-> s, i |-> 0, b |-> FALSE, type |-> "str", items |-> <<>>]

PyBool(b) == [s |-> <<>>, i |-> 0, b |-> b, type |-> "bool", items |-> <<>>]

PyInt(i) == [s |-> <<>>, i |-> i, b |-> FALSE, type |-> "int", items |-> <<>>]

PyFloat(halves) ==
    [s |-> <<>>, i |-> halves, b |-> FALSE, type |-> "float", items |-> <<>>]

PyBytes(s) == [s |-> s, i |-> 0, b |-> FALSE, type |-> "bytes", items |-> <<>>]

PyList(items) == [s |-> <<>>, i |-> 0, b |-> FALSE, type |-> "list", items |-> items]

PyTuple(items) == [s |-> <<>>, i |-> 0, b |-> FALSE, type |-> "tuple", items |-> items]

PyDict(items) == [s |-> <<>>, i |-> 0, b |-> FALSE, type |-> "dict", items |-> items]

PyItem(key, value) ==
    [s |-> key, i |-> 0, b |-> FALSE, type |-> "item", items |-> <<value>>]

PyNone == [s |-> <<>>, i |-> 0, b |-> FALSE, type |-> "NoneType", items |-> <<>>]

\* a value of a type without wire encoding, such as a set
PyOther(t) == [s |-> <<>>, i |-> 0, b |-> FALSE, type |-> t, items |-> <<>>]

\* nothing was parsed
NotParsed == [s |-> <<>>, i |-> 0, b |-> FALSE, type |-> "unset", items |-> <<>>]

ZERO_BYTE == "0x00"

Digits == <<"0", "1", "2", "3", "4", "5", "6", "7", "8", "9">>

DigitSet == {Digits[k] : k \in 1..10}

DigitValue(c) == (CHOOSE k \in 1..10 : Digits[k] = c) - 1

RECURSIVE NatRepr(_)
NatRepr(n) ==
    IF n < 10 THEN <<Digits[n + 1]>> ELSE NatRepr(n \div 10) \o <<Digits[(n % 10) + 1]>>

IntRepr(i) == IF i < 0 THEN <<"-">> \o NatRepr(0 - i) ELSE NatRepr(i)

\* float.__repr__ of halves / 2
FloatRepr(halves) ==
    LET magnitude == IF halves < 0 THEN 0 - halves ELSE halves IN
    (IF halves < 0 THEN <<"-">> ELSE <<>>)
        \o NatRepr(magnitude \div 2) \o <<".">>
        \o (IF magnitude % 2 = 0 THEN <<"0">> ELSE <<"5">>)

\* bytes.__repr__ picks the double quote when only the single quote occurs
BytesQuote(s) ==
    IF (\E k \in 1..Len(s) : s[k] = "'") /\ ~(\E k \in 1..Len(s) : s[k] = "\"")
    THEN "\"" ELSE "'"

\* faulty variant: no byte is escaped
EscapeByteRaw(c, quote) == <<c>>

EscapeByte(c, quote) ==
    IF c = quote \/ c = "\\" THEN <<"\\", c>>
    ELSE IF c = NL THEN <<"\\", "n">>
    ELSE IF c = ZERO_BYTE THEN <<"\\", "x", "0", "0">>
    ELSE IF c = HIGH_BYTE THEN <<"\\", "x", "f", "f">>
    ELSE <<c>>

RECURSIVE EscapeBytes(_, _)
EscapeBytes(s, quote) ==
    IF s = <<>> THEN <<>>
    ELSE EscapeByte(Head(s), quote) \o EscapeBytes(Tail(s), quote)

BytesRepr(s) ==
    LET quote == BytesQuote(s) IN <<"b", quote>> \o EscapeBytes(s, quote) \o <<quote>>

\* repr(value) of a bool, an int, a float or bytes
Repr(v) ==
    IF v.type = "bool" THEN (IF v.b THEN <<"T", "r", "u", "e">>
                             ELSE <<"F", "a", "l", "s", "e">>)
    ELSE IF v.type = "int" THEN IntRepr(v.i)
    ELSE IF v.type = "float" THEN FloatRepr(v.i)
    ELSE BytesRepr(v.s)

\* json.dumps of a str: ensure_ascii escapes
JsonEscape(c) ==
    IF c = "\"" \/ c = "\\" THEN <<"\\", c>>
    ELSE IF c = NL THEN <<"\\", "n">>
    ELSE IF c = HIGH_CHAR THEN <<"\\", "u", "0", "0", "f", "f">>
    ELSE <<c>>

RECURSIVE JsonEscapes(_)
JsonEscapes(s) ==
    IF s = <<>> THEN <<>> ELSE JsonEscape(Head(s)) \o JsonEscapes(Tail(s))

JsonString(s) == <<"\"">> \o JsonEscapes(s) \o <<"\"">>

JsonScalars == {"str", "bool", "int", "float", "NoneType"}

JsonContainers == {"list", "tuple", "dict"}

RECURSIVE JsonOffender(_)
\* the type of the first element json.dumps cannot serialize, "None" when
\* there is none
JsonOffender(v) ==
    IF v.type \in JsonScalars THEN "None"
    ELSE IF v.type \in JsonContainers \cup {"item"}
    THEN LET bad == {k \in 1..Len(v.items) : JsonOffender(v.items[k]) # "None"}
         IN  IF bad = {} THEN "None" ELSE JsonOffender(v.items[MinOf(bad)])
    ELSE v.type

RECURSIVE JsonText(_)
RECURSIVE JsonJoin(_)
\* the elements separated by ', '
JsonJoin(items) ==
    IF items = <<>> THEN <<>>
    ELSE IF Len(items) = 1 THEN JsonText(items[1])
    ELSE JsonText(items[1]) \o <<",", " ">> \o JsonJoin(Tail(items))

\* the text json.dumps builds for a serializable value
JsonText(v) ==
    IF v.type = "str" THEN JsonString(v.s)
    ELSE IF v.type = "bool" THEN (IF v.b THEN <<"t", "r", "u", "e">>
                                  ELSE <<"f", "a", "l", "s", "e">>)
    ELSE IF v.type = "int" THEN IntRepr(v.i)
    ELSE IF v.type = "float" THEN FloatRepr(v.i)
    ELSE IF v.type = "NoneType" THEN <<"n", "u", "l", "l">>
    ELSE IF v.type = "item" THEN JsonString(v.s) \o <<":", " ">> \o JsonText(v.items[1])
    ELSE IF v.type = "dict" THEN <<"{">> \o JsonJoin(v.items) \o <<"}">>
    ELSE <<"[">> \o JsonJoin(v.items) \o <<"]">>

\* json.dumps(value)
JsonDumps(v) ==
    IF JsonOffender(v) # "None"
    THEN Raised("TypeError", <<"Object of type ", JsonOffender(v),
                               " is not JSON serializable">>)
    ELSE Returned(JsonText(v))

CANNOT_INTERPRET == "Cannot interpret parameter type "

\* faulty variant: a value of an unknown type is passed as its type name
EncodeParameterLenient(v) ==
    IF v.type = "str" THEN Returned(v.s)
    ELSE IF v.type \in {"bool", "int", "float", "bytes"} THEN Returned(Repr(v))
    ELSE IF v.type \in JsonContainers THEN JsonDumps(v)
    ELSE Returned(<<v.type>>)

\* the isinstance chain of lines 387-394 for one value
EncodeParameter(v) ==
    IF v.type = "str" THEN Returned(v.s)
    ELSE IF v.type \in {"bool", "int", "float", "bytes"} THEN Returned(Repr(v))
    ELSE IF v.type \in JsonContainers THEN JsonDumps(v)
    ELSE Raised("GimpScriptException", <<CANNOT_INTERPRET, v.type>>)

NoParameters == [k \in {} |-> Returned(<<>>)]

RECURSIVE ParseParameters(_, _, _)
\* the loop of lines 386-394 over the items in insertion order: the exception
\* of the first value it cannot encode, else parameters_parsed
ParseParameters(parameters, i, parsed) ==
    IF i > Len(parameters) THEN [parsed |-> parsed, error |-> NotCalled]
    ELSE LET encoded == EncodeParameter(parameters[i].value) IN
         IF IsRaise(encoded) THEN [parsed |-> parsed, error |-> encoded]
         ELSE ParseParameters(parameters, i + 1,
                  Update(parsed, [k \in {parameters[i].name} |-> encoded]))

\* line 396: the entries of parameters_parsed that are not None
ParsedEnvironment(parsed) ==
    [k \in {n \in DOMAIN parsed : parsed[n].kind = "return"} |-> parsed[k].value]

\* lines 376-382
BaseEnvironment(h, working_directory, self_environment, pythonpath) ==
    LET initial == [k \in {"__working_directory__"} |-> <<working_directory>>]
        with_host == Update(initial, h.environ)
        with_path ==
            Update(with_host,
                   [k \in {"PYTHONPATH"} |->
                       IF "PYTHONPATH" \notin DOMAIN with_host THEN <<pythonpath>>
                       ELSE <<pythonpath, ":">> \o with_host["PYTHONPATH"]])
        \* line 382: the entries of self._environment that are not None
        given == {n \in DOMAIN self_environment : self_environment[n] # PyNone}
    IN  Update(with_path, [k \in given |-> self_environment[k].s])

\* faulty variant: the host's variables win over the caller's parameters
ChildEnvironmentHostFirst(base, parameters_parsed) ==
    Update(ParsedEnvironment(parameters_parsed), base)

\* line 396: the encoded parameters are applied last
ChildEnvironment(base, parameters_parsed) ==
    Update(base, ParsedEnvironment(parameters_parsed))

(***************************************************************************)
(* The engine-side accessors of pgimp/gimp/parameter.py                    *)
(***************************************************************************)
\* what a call that gives back a python value did
Got(v) == [kind |-> "return", value |-> v]

Failed(exc) == [kind |-> exc, value |-> PyNone]

RECURSIVE SkipWs(_)
SkipWs(t) == IF t # <<>> /\ Head(t) \in Whitespace THEN SkipWs(Tail(t)) ELSE t

RECURSIVE DigitsPrefix(_)
\* the leading digits of t
DigitsPrefix(t) ==
    IF t # <<>> /\ Head(t) \in DigitSet THEN <<Head(t)>> \o DigitsPrefix(Tail(t))
    ELSE <<>>

RECURSIVE NatValue(_)
NatValue(ds) ==
    IF ds = <<>> THEN 0
    ELSE NatValue(SubSeq(ds, 1, Len(ds) - 1)) * 10 + DigitValue(ds[Len(ds)])

AllZero(ds) == \A k \in 1..Len(ds) : ds[k] = "0"

\* twice the fraction .ds, -1 when it is no multiple of one half
FractionHalves(ds) ==
    IF AllZero(ds) THEN 0
    ELSE IF Head(ds) = "5" /\ AllZero(Tail(ds)) THEN 1
    ELSE -1

\* a decimal literal [sign] digits [. digits] that fills t: the int or the
\* float it denotes.  Exponents, inf and nan, and fractions that are no
\* multiple of one half are outside the numbers of the model.
DecimalLiteral(t, signs) ==
    LET negative == t # <<>> /\ Head(t) = "-"
        body == IF t # <<>> /\ Head(t) \in signs THEN Tail(t) ELSE t
        whole == DigitsPrefix(body)
        after == SliceFrom(body, Len(whole))
        fraction == IF after # <<>> /\ Head(after) = "." THEN DigitsPrefix(Tail(after))
                    ELSE <<>>
        sign == IF negative THEN -1 ELSE 1
    IN  IF whole = <<>> THEN Failed("ValueError")
        ELSE IF after = <<>> THEN Got(PyInt(sign * NatValue(whole)))
        ELSE IF Head(after) = "." /\ fraction # <<>>
                /\ Len(after) = 1 + Len(fraction) /\ FractionHalves(fraction) >= 0
        THEN Got(PyFloat(sign * (2 * NatValue(whole) + FractionHalves(fraction))))
        ELSE Failed("ValueError")

\* int(value)
PyToInt(v) ==
    IF v.type = "int" THEN Got(v)
    ELSE IF v.type = "bool" THEN Got(PyInt(IF v.b THEN 1 ELSE 0))
    ELSE IF v.type = "str"
    THEN LET literal == DecimalLiteral(Strip(v.s), {"+", "-"})
         IN  IF ~IsRaise(literal) /\ literal.value.type = "int" THEN literal
             ELSE Failed("ValueError")
    ELSE Failed("TypeError")

\* float(value)
PyToFloat(v) ==
    IF v.type = "float" THEN Got(v)
    ELSE IF v.type = "int" THEN Got(PyFloat(2 * v.i))
    ELSE IF v.type = "bool" THEN Got(PyFloat(IF v.b THEN 2 ELSE 0))
    ELSE IF v.type = "str"
    THEN LET literal == DecimalLiteral(Strip(v.s), {"+", "-"})
         IN  IF IsRaise(literal) THEN Failed("ValueError")
             ELSE IF literal.value.type = "int" THEN Got(PyFloat(2 * literal.value.i))
             ELSE literal
    ELSE Failed("TypeError")

RECURSIVE BytesBody(_, _, _)
\* the inside of a bytes literal up to its closing quote, which ends the text
BytesBody(t, quote, acc) ==
    IF t = <<>> THEN Failed("SyntaxError")
    ELSE IF Head(t) = quote
    THEN IF Tail(t) = <<>> THEN Got(PyBytes(acc)) ELSE Failed("SyntaxError")
    ELSE IF Head(t) = "\\"
    THEN IF Len(t) < 2 THEN Failed("SyntaxError")
         ELSE IF t[2] \in {"\\", "'", "\""}
         THEN BytesBody(SliceFrom(t, 2), quote, Append(acc, t[2]))
         ELSE IF t[2] = "n" THEN BytesBody(SliceFrom(t, 2), quote, Append(acc, NL))
         ELSE IF t[2] = "x" /\ Len(t) >= 4 /\ SubSeq(t, 3, 4) = <<"0", "0">>
         THEN BytesBody(SliceFrom(t, 4), quote, Append(acc, ZERO_BYTE))
         ELSE IF t[2] = "x" /\ Len(t) >= 4 /\ SubSeq(t, 3, 4) = <<"f", "f">>
         THEN BytesBody(SliceFrom(t, 4), quote, Append(acc, HIGH_BYTE))
         ELSE Failed("SyntaxError")
    ELSE IF Head(t) = NL THEN Failed("SyntaxError")
    ELSE BytesBody(Tail(t), quote, Append(acc, Head(t)))

\* eval(value) of the literals repr writes: bytes, bool, int and float
PyEval(v) ==
    IF v.type # "str" THEN Failed("TypeError")
    ELSE LET t == Strip(v.s) IN
         IF Len(t) >= 2 /\ t[1] = "b" /\ t[2] \in {"'", "\""}
         THEN BytesBody(SliceFrom(t, 2), t[2], <<>>)
         ELSE IF t = <<"T", "r", "u", "e">> THEN Got(PyBool(TRUE))
         ELSE IF t = <<"F", "a", "l", "s", "e">> THEN Got(PyBool(FALSE))
         ELSE LET literal == DecimalLiteral(t, {"-"})
              IN  IF IsRaise(literal) THEN Failed("SyntaxError") ELSE literal

JsonOk(v, rest) == [value |-> v, rest |-> rest, ok |-> TRUE]

JsonFail == [value |-> PyNone, rest |-> <<>>, ok |-> FALSE]

RECURSIVE JsonStringBody(_, _)
\* a JSON string behind its opening quote
JsonStringBody(t, acc) ==
    IF t = <<>> THEN JsonFail
    ELSE IF Head(t) = "\"" THEN JsonOk(PyStr(acc), Tail(t))
    ELSE IF Head(t) = "\\"
    THEN IF Len(t) < 2 THEN JsonFail
         ELSE IF t[2] \in {"\"", "\\", "/"}
         THEN JsonStringBody(SliceFrom(t, 2), Append(acc, t[2]))
         ELSE IF t[2] = "n" THEN JsonStringBody(SliceFrom(t, 2), Append(acc, NL))
         ELSE IF t[2] = "u" /\ Len(t) >= 6 /\ SubSeq(t, 3, 6) = <<"0", "0", "f", "f">>
         THEN JsonStringBody(SliceFrom(t, 6), Append(acc, HIGH_CHAR))
         ELSE JsonFail
    ELSE IF Head(t) \in {NL, "\t", "\r"} THEN JsonFail
    ELSE JsonStringBody(Tail(t), Append(acc, Head(t)))

\* a JSON number at the head of t: -? digits (. digits)?
JsonNumber(t) ==
    LET negative == Head(t) = "-"
        body == IF negative THEN Tail(t) ELSE t
        digits == DigitsPrefix(body)
        whole == IF digits # <<>> /\ Head(digits) = "0" THEN <<"0">> ELSE digits
        after == SliceFrom(body, Len(whole))
        fraction == IF after # <<>> /\ Head(after) = "." THEN DigitsPrefix(Tail(after))
                    ELSE <<>>
        sign == IF negative THEN -1 ELSE 1
    IN  IF whole = <<>> THEN JsonFail
        ELSE IF fraction = <<>> THEN JsonOk(PyInt(sign * NatValue(whole)), after)
        ELSE IF FractionHalves(fraction) < 0 THEN JsonFail
        ELSE JsonOk(PyFloat(sign * (2 * NatValue(whole) + FractionHalves(fraction))),
                    SliceFrom(after, 1 + Len(fraction)))

\* dict[key] = value: a key that is there keeps its place
PutItem(items, item) ==
    IF \E k \in 1..Len(items) : items[k].s = item.s
    THEN [k \in 1..Len(items) |-> IF items[k].s = item.s THEN item ELSE items[k]]
    ELSE Append(items, item)

RECURSIVE JsonValue(_)
RECURSIVE JsonElements(_, _)
RECURSIVE JsonMembers(_, _)
\* the JSON value at the head of t and the text behind it
JsonValue(t0) ==
    LET t == SkipWs(t0) IN
    IF t = <<>> THEN JsonFail
    ELSE IF Head(t) = "\"" THEN JsonStringBody(Tail(t), <<>>)
    ELSE IF StartsWith(t, <<"t", "r", "u", "e">>) THEN JsonOk(PyBool(TRUE), SliceFrom(t, 4))
    ELSE IF StartsWith(t, <<"f", "a", "l", "s", "e">>)
    THEN JsonOk(PyBool(FALSE), SliceFrom(t, 5))
    ELSE IF StartsWith(t, <<"n", "u", "l", "l">>) THEN JsonOk(PyNone, SliceFrom(t, 4))
    ELSE IF Head(t) = "["
    THEN LET inner == SkipWs(Tail(t))
         IN  IF inner # <<>> /\ Head(inner) = "]" THEN JsonOk(PyList(<<>>), Tail(inner))
             ELSE JsonElements(inner, <<>>)
    ELSE IF Head(t) = "{"
    THEN LET inner == SkipWs(Tail(t))
         IN  IF inner # <<>> /\ Head(inner) = "}" THEN JsonOk(PyDict(<<>>), Tail(inner))
             ELSE JsonMembers(inner, <<>>)
    ELSE JsonNumber(t)

\* the elements of an array behind its opening bracket
JsonElements(t, acc) ==
    LET element == JsonValue(t)
        after == SkipWs(element.rest)
    IN  IF ~element.ok \/ after = <<>> THEN JsonFail
        ELSE IF Head(after) = ","
        THEN JsonElements(Tail(after), Append(acc, element.value))
        ELSE IF Head(after) = "]"
        THEN JsonOk(PyList(Append(acc, element.value)), Tail(after))
        ELSE JsonFail

\* the members of an object behind its opening brace
JsonMembers(t0, acc) ==
    LET t == SkipWs(t0)
        key == JsonStringBody(Tail(t), <<>>)
        colon == SkipWs(key.rest)
        member == JsonValue(Tail(colon))
        after == SkipWs(member.rest)
        items == PutItem(acc, PyItem(key.value.s, member.value))
    IN  IF t = <<>> \/ Head(t) # "\"" THEN JsonFail
        ELSE IF ~key.ok \/ colon = <<>> \/ Head(colon) # ":" THEN JsonFail
        ELSE IF ~member.ok \/ after = <<>> THEN JsonFail
        ELSE IF Head(after) = "," THEN JsonMembers(Tail(after), items)
        ELSE IF Head(after) = "}" THEN JsonOk(PyDict(items), Tail(after))
        ELSE JsonFail

\* json.loads(value)
JsonLoads(v) ==
    IF v.type # "str" THEN Failed("TypeError")
    ELSE LET parsed_value == JsonValue(v.s)
         IN  IF parsed_value.ok /\ SkipWs(parsed_value.rest) = <<>>
             THEN Got(parsed_value.value)
             ELSE Failed("JSONDecodeError")

\* get_parameter(name, default) against the environment of the engine
get_parameter(environ, name, default) ==
    IF default # PyNone /\ name \notin DOMAIN environ THEN Got(default)
    ELSE IF name \in DOMAIN environ THEN Got(PyStr(environ[name]))
    ELSE Failed("KeyError")

get_bool(environ, name, default) ==
    LET value == get_parameter(environ, name, default) IN
    IF IsRaise(value) THEN value
    ELSE IF value.value.type = "bool" THEN value
    ELSE IF value.value = PyStr(<<"T", "r", "u", "e">>) THEN Got(PyBool(TRUE))
    ELSE IF value.value = PyStr(<<"F", "a", "l", "s", "e">>) THEN Got(PyBool(FALSE))
    ELSE Failed("ValueError")

get_int(environ, name, default) ==
    LET value == get_parameter(environ, name, default) IN
    IF IsRaise(value) THEN value ELSE PyToInt(value.value)

get_float(environ, name, default) ==
    LET value == get_parameter(environ, name, default) IN
    IF IsRaise(value) THEN value ELSE PyToFloat(value.value)

get_string(environ, name, default) == get_parameter(environ, name, default)

get_bytes(environ, name, default) ==
    LET value == get_parameter(environ, name, default) IN
    IF IsRaise(value) THEN value ELSE PyEval(value.value)

get_json(environ, name, default) ==
    LET value == get_parameter(environ, name, default) IN
    IF IsRaise(value) THEN value ELSE JsonLoads(value.value)

\* Python truth value of a value
Truthy(v) ==
    CASE v.type \in {"str", "bytes"} -> v.s # <<>>
      [] v.type = "bool" -> v.b
      [] v.type \in {"int", "float"} -> v.i # 0
      [] v.type \in JsonContainers -> v.items # <<>>
      [] OTHER -> FALSE

\* what return_bool(value) prints
return_bool(v) ==
    IF Truthy(v) THEN <<"t", "r", "u", "e", NL>> ELSE <<"f", "a", "l", "s", "e", NL>>

\* what return_json(obj) writes: json.dump(obj, sys.stdout)
return_json(obj) == JsonText(obj)

Accessors == {"get_bool", "get_int", "get_float", "get_string", "get_bytes", "get_json"}

\* the call accessor(name, default) in an engine with that environment
Access(accessor, environ, name, default) ==
    CASE accessor = "get_bool" -> get_bool(environ, name, default)
      [] accessor = "get_int" -> get_int(environ, name, default)
      [] accessor = "get_float" -> get_float(environ, name, default)
      [] accessor = "get_string" -> get_string(environ, name, default)
      [] accessor = "get_bytes" -> get_bytes(environ, name, default)
      [] accessor = "get_json" -> get_json(environ, name, default)

\* a call of an accessor and what it gave
Read(accessor, name, result) ==
    [kind |-> result.kind, value |-> result.value, name |-> name, accessor |-> accessor]

NotRead == Read("none", "none", [kind |-> "none", value |-> PyNone])

(***************************************************************************)
(* Bootstrap injection                                                     *)
(***************************************************************************)
\* the statements of gimp/initializer.py, one per line
InitializerStatements ==
    << "import os, sys, gimp",
       "binary = bool(os.environ['__binary__'])",
       "stdout_file = os.environ['__stdout__']",
       "sys.stdout = open(stdout_file, 'w' if not binary else 'wb')",
       "stderr_file = os.environ['__stderr__']",
       "sys.stderr = open(stderr_file, 'w')",
       "def __exception_hook(exctype, value, traceback): ...",
       "sys.excepthook = __exception_hook",
       "if '__working_directory__' in os.environ: os.chdir(os.environ['__working_directory__'])",
       "sys.path.append(os.getcwd())",
       "if '__PYTHONPATH__' in os.environ: sys.path.append(...)" >>

RECURSIVE Lines(_)
\* every statement followed by its line end
Lines(statements) ==
    IF statements = <<>> THEN <<>>
    ELSE <<Head(statements), NL>> \o Lines(Tail(statements))

\* file.get_content(.../gimp/initializer.py) + '\n'
INITIALIZER == Lines(InitializerStatements) \o <<NL>>

EXTEND_PATH == <<"sys.path.append('<dirname(dirname(__file__))>')", NL>>

QUIT_GIMP == <<NL, "pdb.gimp_quit(0)">>

\* faulty variant: the bootstrap comes behind the caller's code
WrapCodeFirst(code) == code \o INITIALIZER \o EXTEND_PATH \o QUIT_GIMP

\* line 410
Wrap(code) == INITIALIZER \o EXTEND_PATH \o code \o QUIT_GIMP

CODE_THAT_WAS_EXECUTED == <<NL, "Code that was executed:", NL>>

\* faulty variant: the message names the timeout alone
TimeoutMessageBare(exception, code) == exception

\* line 427
TimeoutMessage(exception, code) == exception \o CODE_THAT_WAS_EXECUTED \o code

\* the code execute_file hands to execute
EXEC_SCRIPT_FILE ==
    << "from pgimp.gimp.parameter import get_parameter;",
       "exec(open(get_parameter(\"__script_file__\")).read(), globals())" >>

(***************************************************************************)
(* Descendant processes                                                    *)
(***************************************************************************)
CHILD_PROCESS_START_TIMEOUT == 10

\* the processes that appear below the child, by the name the system gives
ProcessNames(h) ==
    IF is_xvfb_present(h) THEN {"Xvfb", "gimp", "script-fu", "python2.7"}
    ELSE {"script-fu", "python2.7"}

\* child.name().lower() if not child.name().lower().startswith('python') else 'python'
ChildName(name) ==
    IF name = "python2.7" THEN "python"
    ELSE IF name = "Xvfb" THEN "xvfb"
    ELSE name

\* faulty variant: no process is waited for
ExpectedProcessesNone(h) == {}

\* lines 415-418
ExpectedProcesses(h) ==
    IF is_xvfb_present(h) THEN {"xvfb", "gimp", "script-fu", "python"}
    ELSE {"script-fu", "python"}

\* ', '.join(expected_processes)
ExpectedText(h) ==
    IF is_xvfb_present(h) THEN "xvfb, gimp, script-fu, python" ELSE "script-fu, python"

AllNames == {"Xvfb", "gimp", "script-fu", "python2.7"}

\* the process that has to run before the named one comes up: xvfb-run starts
\* the display, then gimp; gimp starts script-fu, which starts python-fu
StartsAfter(h, name) ==
    IF name = "python2.7" THEN "script-fu"
    ELSE IF name = "script-fu" THEN (IF is_xvfb_present(h) THEN "gimp" ELSE "None")
    ELSE IF name = "gimp" THEN "Xvfb"
    ELSE "None"

NoDescendants == [n \in AllNames |-> "absent"]

Running(desc) == {n \in DOMAIN desc : desc[n] = "running"}

\* _kill_non_terminated_processes
kill_non_terminated_processes(desc, processes) ==
    [n \in DOMAIN desc |->
        IF n \in processes /\ desc[n] = "running" THEN "killed" ELSE desc[n]]

\* faulty variant: the finally clause kills nothing
KillTrackedNever(desc, check, processes) == desc

\* the finally clause of lines 428-430
KillTracked(desc, check, processes) ==
    IF check THEN kill_non_terminated_processes(desc, processes) ELSE desc

(***************************************************************************)
(* The explored hosts, requests and engine outputs                         *)
(***************************************************************************)
LifecycleCalls == 1

LifecycleWrites == 1

MaxCalls == 2

MaxWrites == 3

NoGlob == [i \in 1..4 |-> <<>>]

LinuxHost(xvfb, python2, environ) ==
    [platform |-> "linux", glob |-> NoGlob, which_gimp |-> "/usr/bin/gimp",
     which_xvfb |-> xvfb, python2 |-> python2, environ |-> environ]

NoEnviron == [k \in {} |-> <<>>]

\* what glob gives for the four locations when Gimp-2.10.app is installed
AppGlob ==
    [i \in 1..4 |-> IF i = 2 THEN <<"/Applications/Gimp-2.10.app/Contents/MacOS/gimp">>
                    ELSE <<>>]

MacHost(which_gimp, glob) ==
    [platform |-> "darwin", glob |-> glob, which_gimp |-> which_gimp,
     which_xvfb |-> "None", python2 |-> "ok", environ |-> NoEnviron]

\* the hosts on which an invocation gets as far as the child
LifecycleHosts ==
    { LinuxHost("/usr/bin/xvfb-run", "ok", NoEnviron),
      LinuxHost("None", "ok", [k \in {"PYTHONPATH"} |-> <<"/host/lib">>]) }

Hosts ==
    LifecycleHosts \cup
    { LinuxHost("None", "missing", NoEnviron),
      LinuxHost("None", "stderr", NoEnviron),
      LinuxHost("None", "hang", NoEnviron),
      [platform |-> "linux", glob |-> NoGlob, which_gimp |-> "None",
       which_xvfb |-> "None", python2 |-> "ok", environ |-> NoEnviron],
      MacHost("None", AppGlob), MacHost("/opt/local/bin/gimp", AppGlob),
      MacHost("None", NoGlob),
      [platform |-> "win32", glob |-> NoGlob, which_gimp |-> "None",
       which_xvfb |-> "None", python2 |-> "ok", environ |-> NoEnviron] }

WORKING_DIRECTORY == "/work"

SCRIPT_FILE == "/tmp/script.py"

CallerCode == <<"print(">>

Timeouts == {"None", "3"}

Param(name, value) == [value |-> value, name |-> name]

\* {**parameters, name: value}: a name that is there keeps its place
PutParameter(parameters, parameter) ==
    IF \E k \in 1..Len(parameters) : parameters[k].name = parameter.name
    THEN [k \in 1..Len(parameters) |->
             IF parameters[k].name = parameter.name THEN parameter ELSE parameters[k]]
    ELSE Append(parameters, parameter)

\* the parameters dicts explored, as their items in insertion order
ParameterChoices ==
    { <<>>,
      <<Param("p", PyStr(<<"v">>))>>,
      <<Param("p", PyBool(TRUE)), Param("q", PyInt(-12))>>,
      <<Param("p", PyNone)>>,
      <<Param("p", PyOther("set"))>>,
      <<Param("p", PyStr(<<"v">>)), Param("q", PyOther("set"))>> }

\* what the engine prints in one write
Segments ==
    { <<NL>>, <<"E">>, SENTINEL_LINE, GIMP_WARNING_START, INIT_WARNING, <<HIGH_BYTE>> }

LifecycleSegments == { SENTINEL_LINE }

\* the requests explored along the whole life of an invocation, for the
\* classification of the engine's output, and for the parameter codec
LifecycleChoices ==
    [parameters |-> { <<Param("p", PyStr(<<"v">>))>> }, timeouts |-> Timeouts]

ClassifyChoices == [parameters |-> { <<>> }, timeouts |-> {"None"}]

CodecChoices == [parameters |-> ParameterChoices, timeouts |-> Timeouts]

(***************************************************************************)
(* One invocation                                                          *)
(***************************************************************************)
NoProcess ==
    [stdout |-> "None", stderr |-> "None", state |-> "none", id |-> 0,
     command |-> <<>>, env |-> NoEnviron]

NoRequest ==
    [binary |-> FALSE, output_stream |-> FALSE, error_stream |-> FALSE, parameters |-> <<>>,
     given |-> <<>>,
     code |-> <<>>, entry |-> "none", timeout |-> "None"]

RunnerInit ==
    /\ file_to_execute = "None"
    /\ gimp_process = NoProcess
    /\ pc = "idle"
    /\ request = NoRequest
    /\ outcome = NotCalled
    /\ parse_returned = NotParsed
    /\ helper = "none"
    /\ descendants = NoDescendants
    /\ process_children = {}
    /\ children = {}
    /\ elapsed = 0
    /\ stdin = <<>>
    /\ stdout_buf = <<>>
    /\ stderr_buf = <<>>
    /\ output_closed = FALSE
    /\ error_closed = FALSE
    /\ invocations = 0

NoResolver == [threads |-> <<>>, returned |-> {}]

\* the interpreter of the child with this id: the statement it is at, whether
\* sys.excepthook is the hook of initializer.py, where sys.stdout and
\* sys.stderr point, and the environment variables it has looked up
NoEngine ==
    [stdout |-> "inherited", stderr |-> "inherited", state |-> "none", id |-> 0,
     at |-> 0, excepthook |-> FALSE, read |-> {}]

\* the call dst.copy_layer_from(src, ..., other_can_be_smaller): the files of
\* this collection (dst) and of the other (src), and the directories there are
NoCollections ==
    [this |-> <<>>, other |-> <<>>, dirs |-> {}, other_can_be_smaller |-> FALSE]

\* no direct call of strip_gimp_warnings is under way
StripIdle == strip_input = <<>> /\ strip_result = NotCalled /\ strip_again = NotCalled

\* no parameter is under way through the codec
RoundTripIdle == rt_value = PyNone /\ rt_text = NotCalled /\ rt_result = NotRead

\* no call of path_to_gimp_executable from another thread is under way
ResolverIdle == resolver = NoResolver

\* no interpreter runs: no child has been given a program
EngineIdle == engine = NoEngine

\* no direct call of strip_initialization_warnings is under way
WarningIdle ==
    warning_lines = <<>> /\ warning_result = NotCalled /\ warning_raise = NotCalled

\* no call of copy_layer_from is under way
CopyIdle == collections = NoCollections /\ copy_result = NotCalled

PureIdle ==
    StripIdle /\ RoundTripIdle /\ ResolverIdle /\ EngineIdle /\ WarningIdle /\ CopyIdle

ProcessInit ==
    /\ EXECUTABLE_GIMP_PATH = "None"
    /\ PYTHON2_PYTHONPATH = "None"
    /\ environment = NoEnviron

\* GimpScriptRunner._parse: the value json.loads reads, or the exception
_parse(input) ==
    LET loaded == JsonLoads(PyStr(input)) IN
    IF loaded.kind = "JSONDecodeError"
    THEN [value |-> NotParsed,
          error |-> Raised("GimpScriptException",
                           <<"The following JSON could not be parsed:\n>>>">> \o input
                               \o <<"<<<\nOriginal decoding error:\n", "str(exc)">>)]
    ELSE [value |-> loaded.value, error |-> NotCalled]

ParseEntries == {"execute_and_parse_json", "execute_and_parse_bool"}

\* faulty variant: execute_file leaves the file behind
FileLeftBehind(entry, file) == file

\* self._file_to_execute when the call is over: the finally of execute_file
\* (lines 218-219) resets it, the other entry points do not touch it
FileAfterCall(entry, file) == IF entry = "execute_file" THEN "None" ELSE file

\* control goes back to the caller; execute_file's finally resets the file.
\* execute_and_parse_json and execute_and_parse_bool hand what execute
\* returned to _parse: outcome then holds the text and parse_returned the
\* value the caller gets
Finish(result) ==
    LET parsing == request.entry \in ParseEntries /\ result.kind = "return"
        parse_result == _parse(result.value)
    IN
    /\ pc' = IF IsRaise(result) \/ (parsing /\ IsRaise(parse_result.error))
             THEN "raised" ELSE "returned"
    /\ outcome' = IF parsing /\ IsRaise(parse_result.error) THEN parse_result.error
                  ELSE result
    /\ parse_returned' = IF parsing THEN parse_result.value ELSE NotParsed
    /\ file_to_execute' = FileAfterCall(request.entry, file_to_execute)

\* lines 359-396: what _send_to_gimp does before it spawns the child
Prepare(parameters) ==
    LET located == path_to_gimp_executable(host, EXECUTABLE_GIMP_PATH)
        gimp_cache == IF IsRaise(located) THEN EXECUTABLE_GIMP_PATH ELSE located.value
    IN
    IF IsRaise(located)
    THEN [helper |-> "none", error |-> located,
          command |-> <<>>, env |-> NoEnviron,
          gimp_cache |-> gimp_cache, python_cache |-> PYTHON2_PYTHONPATH]
    ELSE IF located.value = "None"
    THEN [helper |-> "none",
          error |-> Raised("GimpNotInstalledException",
                           <<"A working gimp installation with gimp on the PATH is necessary.">>), command |-> <<>>,
          env |-> NoEnviron, gimp_cache |-> gimp_cache, python_cache |-> PYTHON2_PYTHONPATH]
    ELSE
    LET pythonpath == python2_pythonpath(host, PYTHON2_PYTHONPATH) IN
    IF IsRaise(pythonpath.result)
    THEN [helper |-> pythonpath.helper, error |-> pythonpath.result,
          command |-> <<>>, env |-> NoEnviron,
          gimp_cache |-> gimp_cache, python_cache |-> PYTHON2_PYTHONPATH]
    ELSE
    LET base == BaseEnvironment(host, WORKING_DIRECTORY, environment,
                                pythonpath.result.value)
        parsed == ParseParameters(parameters, 1, NoParameters)
    IN  [helper |-> pythonpath.helper, error |-> parsed.error,
         command |-> Command(host, located.value), env |-> ChildEnvironment(base, parsed.parsed),
         gimp_cache |-> gimp_cache,
         python_cache |-> pythonpath.result.value]

\* _send_to_gimp up to its first blocking call: the descendant poll when the
\* process check is on, else communicate, which begins by writing the code
SendToGimp(entry, code, binary, given, parameters, timeout, output_stream, error_stream, file) ==
    LET prep == Prepare(parameters) IN
    /\ pc \in {"idle", "returned", "raised"}
    /\ invocations < call_limit
    /\ invocations' = invocations + 1
    /\ request' = [binary |-> binary, output_stream |-> output_stream, error_stream |-> error_stream,
                   parameters |-> parameters, given |-> given, code |-> code,
                   entry |-> entry, timeout |-> timeout]
    /\ EXECUTABLE_GIMP_PATH' = prep.gimp_cache
    /\ PYTHON2_PYTHONPATH' = prep.python_cache
    /\ helper' = prep.helper
    /\ descendants' = NoDescendants
    /\ process_children' = {}
    /\ children' = {}
    /\ elapsed' = 0
    /\ stdout_buf' = <<>>
    /\ stderr_buf' = <<>>
    /\ output_closed' = FALSE
    /\ error_closed' = FALSE
    /\ IF IsRaise(prep.error)
       THEN /\ pc' = "raised"
            /\ outcome' = prep.error
            /\ parse_returned' = NotParsed
            /\ file_to_execute' = FileAfterCall(entry, file)
            /\ stdin' = <<>>
            /\ UNCHANGED gimp_process
       ELSE /\ gimp_process' =
                   [stdout |-> IF output_stream THEN "output_stream" ELSE "PIPE", stderr |-> IF error_stream THEN "error_stream" ELSE "PIPE",
                    state |-> "running", id |-> invocations + 1,
                    command |-> prep.command,
                    env |-> prep.env]
            /\ outcome' = NotCalled
            /\ parse_returned' = NotParsed
            /\ file_to_execute' = file
            /\ IF execute_scripts_with_process_check
               THEN pc' = "awaiting" /\ stdin' = <<>>
               ELSE pc' = "exchanging" /\ stdin' = Wrap(code)
    /\ UNCHANGED <<host, execute_scripts_with_process_check, environment,
                   call_limit, writes_left, pureVars>>

\* GimpScriptRunner.execute
Execute(choices) ==
    \E parameters \in choices.parameters, timeout \in choices.timeouts,
       output_stream \in BOOLEAN, error_stream \in BOOLEAN :
        SendToGimp("execute", CallerCode, FALSE, parameters, parameters, timeout,
                   output_stream, error_stream, file_to_execute)

\* GimpScriptRunner.execute_binary
ExecuteBinary(choices) ==
    \E parameters \in choices.parameters, timeout \in choices.timeouts, error_stream \in BOOLEAN :
        SendToGimp("execute_binary", CallerCode, TRUE, parameters, parameters, timeout,
                   FALSE, error_stream, file_to_execute)

\* GimpScriptRunner.execute_and_parse_json
ExecuteAndParseJson(choices) ==
    \E parameters \in choices.parameters, timeout \in choices.timeouts, error_stream \in BOOLEAN :
        SendToGimp("execute_and_parse_json", CallerCode, FALSE, parameters, parameters,
                   timeout, FALSE, error_stream, file_to_execute)

\* GimpScriptRunner.execute_and_parse_bool
ExecuteAndParseBool(choices) ==
    \E parameters \in choices.parameters, timeout \in choices.timeouts, error_stream \in BOOLEAN :
        SendToGimp("execute_and_parse_bool", CallerCode, FALSE, parameters, parameters,
                   timeout, FALSE, error_stream, file_to_execute)

\* GimpScriptRunner.execute_file
ExecuteFile(choices) ==
    \E parameters \in choices.parameters, timeout \in choices.timeouts,
       output_stream \in BOOLEAN, error_stream \in BOOLEAN :
        SendToGimp("execute_file", EXEC_SCRIPT_FILE, FALSE, parameters,
                   PutParameter(parameters, Param("__script_file__", PyStr(<<SCRIPT_FILE>>))),
                   timeout, output_stream, error_stream, SCRIPT_FILE)

\* the engine and its helpers come up below the child
DescendantStart ==
    \E n \in ProcessNames(host) :
        /\ pc \in {"awaiting", "sleeping", "exchanging"}
        /\ gimp_process.state = "running"
        /\ descendants[n] = "absent"
        /\ StartsAfter(host, n) # "None" => descendants[StartsAfter(host, n)] = "running"
        /\ descendants' = [descendants EXCEPT ![n] = "running"]
        /\ UNCHANGED <<processVars, file_to_execute, gimp_process, pc, request,
                       outcome, parse_returned, helper, process_children, children, elapsed, stdin,
                       stdout_buf, stderr_buf, output_closed, error_closed,
                       invocations, call_limit, writes_left, pureVars>>

\* a descendant ends by itself
DescendantExit ==
    \E n \in ProcessNames(host) :
        /\ pc \in {"awaiting", "sleeping", "exchanging"}
        /\ descendants[n] = "running"
        /\ descendants' = [descendants EXCEPT ![n] = "gone"]
        /\ UNCHANGED <<processVars, file_to_execute, gimp_process, pc, request,
                       outcome, parse_returned, helper, process_children, children, elapsed, stdin,
                       stdout_buf, stderr_buf, output_closed, error_closed,
                       invocations, call_limit, writes_left, pureVars>>

\* _wait_for_child_processes_to_start, lines 481-490: list the descendants and
\* read their names; a process that vanished meanwhile is listed but not named
PollChildren ==
    \E vanished \in SUBSET Running(descendants) :
        /\ pc = "awaiting"
        /\ process_children' = Running(descendants)
        /\ children' = {ChildName(n) : n \in Running(descendants) \ vanished}
        /\ descendants' = [n \in DOMAIN descendants |->
                              IF n \in vanished THEN "gone" ELSE descendants[n]]
        /\ pc' = "sleeping"
        /\ UNCHANGED <<processVars, file_to_execute, gimp_process, request,
                       outcome, parse_returned, helper, elapsed, stdin, stdout_buf, stderr_buf,
                       output_closed, error_closed, invocations, call_limit, writes_left, pureVars>>

\* lines 491-496 and 480: the sleep ends; past the start timeout the listed
\* processes are killed and the wait raises, else the loop test decides
\* between another poll and the exchange
PollWake ==
    \E late \in BOOLEAN :
        \* time.time() - current_time, up to the one distinction the code makes
        LET now == IF late THEN CHILD_PROCESS_START_TIMEOUT + 1 ELSE elapsed IN
        /\ pc = "sleeping"
        /\ elapsed' = now
        /\ IF now > CHILD_PROCESS_START_TIMEOUT
           THEN /\ descendants' = kill_non_terminated_processes(descendants, process_children)
                /\ Finish(Raised("GimpScriptExecutionTimeoutException",
                                 <<"Child processes ", ExpectedText(host),
                                   " were not spawned in time.">>))
                /\ UNCHANGED <<stdin, process_children, children>>
           ELSE IF children = ExpectedProcesses(host)
           THEN /\ pc' = "exchanging"
                /\ stdin' = Wrap(request.code)
                /\ UNCHANGED <<descendants, outcome, parse_returned, file_to_execute,
                               process_children, children>>
           ELSE /\ pc' = "awaiting"
                \* both are assigned again before they are read
                /\ process_children' = {}
                /\ children' = {}
                /\ UNCHANGED <<descendants, outcome, parse_returned, file_to_execute, stdin>>
        /\ UNCHANGED <<processVars, gimp_process, request, helper, stdout_buf,
                       stderr_buf, output_closed, error_closed, invocations,
                       call_limit, writes_left, pureVars>>

\* the engine prints to its stdout or stderr
EngineWrites(segments) ==
    \E seg \in segments, to_stderr \in BOOLEAN :
        /\ pc = "exchanging"
        /\ gimp_process.state = "running"
        /\ writes_left > 0
        /\ writes_left' = writes_left - 1
        /\ IF to_stderr
           THEN stderr_buf' = stderr_buf \o seg /\ UNCHANGED stdout_buf
           ELSE stdout_buf' = stdout_buf \o seg /\ UNCHANGED stderr_buf
        /\ UNCHANGED <<processVars, file_to_execute, gimp_process, pc, request,
                       outcome, parse_returned, helper, descendants, process_children, children,
                       elapsed, stdin, output_closed, error_closed, invocations,
                       call_limit, pureVars>>

EngineWrite == EngineWrites(Segments)

\* the script ends with return_bool(value) or return_json(value): the text is
\* printed and gimp quits
EngineReturns(values) ==
    \E v \in values, as_bool \in BOOLEAN :
        /\ pc = "exchanging"
        /\ gimp_process.state = "running"
        /\ writes_left > 0
        /\ writes_left' = 0
        /\ stdout_buf' = stdout_buf \o (IF as_bool THEN return_bool(v) ELSE return_json(v))
        /\ UNCHANGED <<processVars, file_to_execute, gimp_process, pc, request,
                       outcome, parse_returned, helper, descendants, process_children,
                       children, elapsed, stdin, stderr_buf, output_closed,
                       error_closed, invocations, call_limit, pureVars>>

EngineWriteShort == EngineWrites(LifecycleSegments)

\* line 424: what communicate returns for a stream; one that went to the
\* caller's sink is not read
StdoutBytes == IF request.output_stream THEN <<>> ELSE stdout_buf

StderrBytes == IF request.error_stream THEN <<>> ELSE stderr_buf

\* lines 424-474: the child ends, communicate returns what the pipes held, the
\* tracked descendants are killed and the result is classified
ExchangeComplete ==
    LET result == Classify(StdoutBytes, StderrBytes,
                           request.binary, request.output_stream,
                           request.error_stream, file_to_execute)
    IN
    /\ pc = "exchanging"
    /\ gimp_process.state = "running"
    /\ gimp_process' = [gimp_process EXCEPT !.state = "exited"]
    /\ descendants' = KillTracked(descendants, execute_scripts_with_process_check,
                                  process_children)
    /\ output_closed' = OutputStreamClosed(request.binary, request.output_stream)
    /\ error_closed' = ErrorStreamClosed(StdoutBytes, request.binary,
                                         request.output_stream, request.error_stream)
    /\ Finish(result)
    /\ UNCHANGED <<processVars, request, helper, process_children, children,
                   elapsed, stdin, stdout_buf, stderr_buf, invocations, call_limit,
                   writes_left, pureVars>>

\* faulty variant: the child is left alone on a timeout
KilledChildSpared(process) == process

\* self._gimp_process.kill()
KilledChild(process) == [process EXCEPT !.state = "killed"]

\* lines 425-430: communicate runs into the caller's timeout
ExchangeTimeout ==
    /\ pc = "exchanging"
    /\ gimp_process.state = "running"
    /\ request.timeout # "None"
    /\ gimp_process' = KilledChild(gimp_process)
    /\ descendants' = KillTracked(descendants, execute_scripts_with_process_check,
                                  process_children)
    /\ Finish(Raised("GimpScriptExecutionTimeoutException",
                     TimeoutMessage(<<"Command timed out after ", request.timeout,
                                      " seconds">>, stdin)))
    /\ UNCHANGED <<processVars, request, helper, process_children, children,
                   elapsed, stdin, stdout_buf, stderr_buf, output_closed,
                   error_closed, invocations, call_limit, writes_left, pureVars>>

Init ==
    /\ host \in LifecycleHosts
    /\ execute_scripts_with_process_check \in BOOLEAN
    /\ ProcessInit
    /\ RunnerInit
    /\ call_limit = LifecycleCalls
    /\ writes_left = LifecycleWrites
    /\ PureIdle

Next ==
    \/ Execute(LifecycleChoices)
    \/ ExecuteBinary(LifecycleChoices)
    \/ ExecuteFile(LifecycleChoices)
    \/ DescendantStart
    \/ DescendantExit
    \/ PollChildren
    \/ PollWake
    \/ EngineWriteShort
    \/ ExchangeComplete
    \/ ExchangeTimeout

Spec == Init /\ [][Next]_vars

\* one invocation on a host without display wrapper and without process
\* check, the engine printing up to MaxWrites segments
InitClassify ==
    /\ host = LinuxHost("None", "ok", NoEnviron)
    /\ execute_scripts_with_process_check = FALSE
    /\ ProcessInit
    /\ RunnerInit
    /\ call_limit = 1
    /\ writes_left = MaxWrites
    /\ PureIdle

NextClassify ==
    \/ Execute(ClassifyChoices)
    \/ ExecuteBinary(ClassifyChoices)
    \/ ExecuteFile(ClassifyChoices)
    \/ EngineWrite
    \/ ExchangeComplete

SpecClassify == InitClassify /\ [][NextClassify]_vars

\* invocations with every explored parameters dict on every explored host
InitCodec ==
    /\ host \in Hosts
    /\ execute_scripts_with_process_check = FALSE
    /\ ProcessInit
    /\ RunnerInit
    /\ call_limit = MaxCalls
    /\ writes_left = 0
    /\ PureIdle

NextCodec ==
    \/ Execute(CodecChoices)
    \/ ExecuteBinary(CodecChoices)
    \/ ExecuteFile(CodecChoices)
    \/ ExchangeComplete
    \/ ExchangeTimeout

SpecCodec == InitCodec /\ [][NextCodec]_vars

\* invocations with a parameter of every supported kind, on hosts and
\* runners whose environments hold a variable of the parameter's name
EnvCalls == 1

EnvHosts ==
    { LinuxHost("None", "ok", NoEnviron),
      LinuxHost("None", "ok", [k \in {"p"} |-> <<"h", "o", "s", "t">>]) }

\* the environment argument of GimpScriptRunner(...)
EnvRunnerEnvironments ==
    { NoEnviron,
      [k \in {"p"} |-> PyStr(<<"r", "u", "n">>)],
      [k \in {"p"} |-> PyNone] }

EnvValues ==
    { PyStr(<<"v">>), PyStr(<<>>), PyBool(TRUE), PyInt(-12), PyFloat(-3),
      PyBytes(<<ZERO_BYTE, "'">>),
      PyList(<<PyInt(1), PyStr(<<"a">>)>>),
      PyTuple(<<PyBool(TRUE), PyNone>>),
      PyDict(<<PyItem(<<"k">>, PyList(<<PyFloat(1)>>))>>) }

EnvChoices ==
    [parameters |-> {<<>>} \cup {<<Param("p", v)>> : v \in EnvValues}
                       \cup {<<Param("__script_file__", PyStr(<<"v">>))>>},
     timeouts |-> {"None"}]

InitEnv ==
    /\ host \in EnvHosts
    /\ execute_scripts_with_process_check = FALSE
    /\ EXECUTABLE_GIMP_PATH = "None"
    /\ PYTHON2_PYTHONPATH = "None"
    /\ environment \in EnvRunnerEnvironments
    /\ RunnerInit
    /\ call_limit = EnvCalls
    /\ writes_left = 0
    /\ PureIdle

NextEnv ==
    \/ Execute(EnvChoices)
    \/ ExecuteBinary(EnvChoices)
    \/ ExecuteFile(EnvChoices)
    \/ ExchangeComplete

SpecEnv == InitEnv /\ [][NextEnv]_vars

\* one parameter value through the codec: encoded as _send_to_gimp encodes
\* it, put into the engine's environment as p, read by an accessor
RoundTripValues ==
    { PyStr(<<>>), PyStr(<<"v">>), PyStr(<<"-", "1", "2">>), PyStr(<<" ", "7", NL>>),
      PyStr(<<"a", "\"", "\\", NL, "'">>),
      PyBool(TRUE), PyBool(FALSE),
      PyInt(0), PyInt(-12), PyInt(105),
      PyFloat(0), PyFloat(-3), PyFloat(25),
      PyBytes(<<>>), PyBytes(<<"a">>), PyBytes(<<"'">>), PyBytes(<<"'", "\"">>),
      PyBytes(<<ZERO_BYTE, "\\", NL, HIGH_BYTE>>),
      PyList(<<>>), PyList(<<PyInt(-1), PyStr(<<"a", "\"", NL, HIGH_CHAR>>)>>),
      PyList(<<PyList(<<PyBool(TRUE), PyNone>>), PyFloat(-1)>>),
      PyList(<<PyTuple(<<PyInt(1)>>)>>),
      PyTuple(<<>>), PyTuple(<<PyInt(1), PyInt(2)>>),
      PyDict(<<>>),
      PyDict(<<PyItem(<<"k">>, PyList(<<PyFloat(1)>>)),
               PyItem(<<>>, PyDict(<<PyItem(<<"x">>, PyStr(<<>>))>>))>>),
      PyDict(<<PyItem(<<"t">>, PyTuple(<<PyNone>>))>>),
      PyList(<<PyBytes(<<"a">>)>>), PyOther("set") }

RoundTripDefaults == {PyNone, PyInt(7)}

\* eval runs whatever text it is given as code: get_bytes is applied to the
\* texts repr writes
Evaluable(v) == v.type \in {"bytes", "bool", "int", "float"}

InitRoundTrip ==
    /\ host = LinuxHost("None", "ok", NoEnviron)
    /\ execute_scripts_with_process_check = TRUE
    /\ ProcessInit
    /\ RunnerInit
    /\ call_limit = 0
    /\ writes_left = 0
    /\ StripIdle
    /\ ResolverIdle
    /\ EngineIdle
    /\ WarningIdle
    /\ CopyIdle
    /\ rt_value \in RoundTripValues
    /\ rt_text = NotCalled
    /\ rt_result = NotRead

\* lines 386-394 for the value
RoundTripEncode ==
    /\ rt_text = NotCalled
    /\ rt_text' = EncodeParameter(rt_value)
    /\ UNCHANGED <<rt_value, rt_result, processVars, runnerVars, stripVars, resolver,
                   engine, warningVars, copyVars>>

\* the script calls an accessor of pgimp.gimp.parameter
RoundTripDecode ==
    \E accessor \in Accessors, name \in {"p", "q"}, default \in RoundTripDefaults :
        /\ rt_text.kind = "return"
        /\ rt_result = NotRead
        /\ accessor = "get_bytes" => Evaluable(rt_value)
        /\ rt_result' = Read(accessor, name,
                              Access(accessor, [k \in {"p"} |-> rt_text.value], name, default))
        /\ UNCHANGED <<rt_value, rt_text, processVars, runnerVars, stripVars, resolver,
                       engine, warningVars, copyVars>>

NextRoundTrip == RoundTripEncode \/ RoundTripDecode

SpecRoundTrip == InitRoundTrip /\ [][NextRoundTrip]_vars

(***************************************************************************)
(* Direct calls of strip_gimp_warnings                                     *)
(***************************************************************************)
MaxBlocks == 2

MaxPayloadSegs == 4

GimpTag == <<"(", "g", "i", "m", "p", ":">>

\* one warning as gimp prints it: "\n(gimp:<pid>): <text>\n"
WarningBlock == GIMP_WARNING_START \o <<"1", ")", ":", " ", "W">> \o <<NL>>

PayloadSegments == {<<NL>>, GimpTag, <<"x">>}

RECURSIVE Repeat(_, _)
Repeat(s, n) == IF n = 0 THEN <<>> ELSE s \o Repeat(s, n - 1)

RECURSIVE SegConcats(_, _)
\* all concatenations of at most n segments
SegConcats(segs, n) ==
    IF n = 0 THEN {<<>>}
    ELSE LET shorter == SegConcats(segs, n - 1)
         IN  shorter \cup {t \o s : t \in shorter, s \in segs}

StripInputs ==
    {Repeat(WarningBlock, n) \o o :
        n \in 0..MaxBlocks, o \in SegConcats(PayloadSegments, MaxPayloadSegs)}

InitStrip ==
    /\ host = LinuxHost("None", "ok", NoEnviron)
    /\ execute_scripts_with_process_check = TRUE
    /\ ProcessInit
    /\ RunnerInit
    /\ call_limit = 0
    /\ writes_left = 0
    /\ strip_input \in StripInputs
    /\ strip_result = NotCalled
    /\ strip_again = NotCalled
    /\ RoundTripIdle
    /\ ResolverIdle
    /\ EngineIdle
    /\ WarningIdle
    /\ CopyIdle

CallStripGimpWarnings ==
    /\ strip_result = NotCalled
    /\ strip_result' = strip_gimp_warnings(strip_input)
    /\ UNCHANGED <<strip_input, strip_again, processVars, runnerVars, roundTripVars,
                   resolver, engine, warningVars, copyVars>>

\* the result of a call is handed to strip_gimp_warnings once more
CallStripGimpWarningsAgain ==
    /\ strip_result.kind = "return"
    /\ strip_again = NotCalled
    /\ strip_again' = strip_gimp_warnings(strip_result.value)
    /\ UNCHANGED <<strip_input, strip_result, processVars, runnerVars, roundTripVars,
                   resolver, engine, warningVars, copyVars>>

NextStrip == CallStripGimpWarnings \/ CallStripGimpWarningsAgain

SpecStrip == InitStrip /\ [][NextStrip]_vars

\* threads of one process that call path_to_gimp_executable, each statement
\* of the function one step
ResolveThreads == 2

ResolveCalls == 2

ResolveHosts ==
    { LinuxHost("None", "ok", NoEnviron),
      MacHost("/opt/local/bin/gimp", AppGlob), MacHost("None", AppGlob),
      MacHost("/opt/local/bin/gimp", NoGlob),
      [platform |-> "win32", glob |-> NoGlob, which_gimp |-> "None",
       which_xvfb |-> "None", python2 |-> "ok", environ |-> NoEnviron] }

\* a thread: the statement it is at, the location its loop is at, the calls
\* it has begun
ThreadIdle == [pc |-> "idle", location |-> 0, calls |-> 0]

InitResolve ==
    /\ host \in ResolveHosts
    /\ execute_scripts_with_process_check = FALSE
    /\ ProcessInit
    /\ RunnerInit
    /\ call_limit = 0
    /\ writes_left = 0
    /\ StripIdle
    /\ RoundTripIdle
    /\ EngineIdle
    /\ WarningIdle
    /\ CopyIdle
    /\ resolver = [threads |-> [t \in 1..ResolveThreads |-> ThreadIdle], returned |-> {}]

resolveFrame == <<host, execute_scripts_with_process_check, PYTHON2_PYTHONPATH,
                  environment, runnerVars, stripVars, roundTripVars, engine,
                  warningVars, copyVars>>

\* thread t moves on to statement pc
ThreadAt(t, next_pc, location) ==
    [resolver EXCEPT !.threads[t].pc = next_pc, !.threads[t].location = location]

\* a thread calls path_to_gimp_executable()
ResolveCall(t) ==
    /\ resolver.threads[t].pc \in {"idle", "returned", "raised"}
    /\ resolver.threads[t].calls < ResolveCalls
    /\ resolver' = [resolver EXCEPT !.threads[t].pc = "check",
                                     !.threads[t].calls = @ + 1]
    /\ UNCHANGED <<EXECUTABLE_GIMP_PATH, resolveFrame>>

\* lines 77-78: the cached path is returned when there is one
ResolveCheck(t) ==
    /\ resolver.threads[t].pc = "check"
    /\ resolver' = IF EXECUTABLE_GIMP_PATH # "None"
                   THEN [ThreadAt(t, "returned", 0) EXCEPT
                            !.returned = @ \cup {EXECUTABLE_GIMP_PATH}]
                   ELSE ThreadAt(t, "which", 0)
    /\ UNCHANGED <<EXECUTABLE_GIMP_PATH, resolveFrame>>

\* lines 80-83: the search path lookup is stored, or the platform rejected
ResolveWhich(t) ==
    /\ resolver.threads[t].pc = "which"
    /\ IF is_linux(host) \/ is_mac_os(host)
       THEN /\ EXECUTABLE_GIMP_PATH' = host.which_gimp
            /\ resolver' = IF is_mac_os(host) THEN ThreadAt(t, "glob", 1)
                           ELSE ThreadAt(t, "return", 0)
       ELSE /\ resolver' = ThreadAt(t, "raised", 0)
            /\ UNCHANGED EXECUTABLE_GIMP_PATH
    /\ UNCHANGED resolveFrame

\* lines 92-95: one turn of the loop over the locations
ResolveGlob(t) ==
    LET location == resolver.threads[t].location IN
    /\ resolver.threads[t].pc = "glob"
    /\ EXECUTABLE_GIMP_PATH' = IF host.glob[location] # <<>> THEN host.glob[location][1]
                               ELSE EXECUTABLE_GIMP_PATH
    /\ resolver' = IF location < Len(MacLocations) THEN ThreadAt(t, "glob", location + 1)
                   ELSE ThreadAt(t, "return", 0)
    /\ UNCHANGED resolveFrame

\* line 97: return EXECUTABLE_GIMP_PATH reads the global
ResolveReturn(t) ==
    /\ resolver.threads[t].pc = "return"
    /\ resolver' = [ThreadAt(t, "returned", 0) EXCEPT
                        !.returned = @ \cup {EXECUTABLE_GIMP_PATH}]
    /\ UNCHANGED <<EXECUTABLE_GIMP_PATH, resolveFrame>>

NextResolve ==
    \E t \in 1..ResolveThreads :
        \/ ResolveCall(t)
        \/ ResolveCheck(t)
        \/ ResolveWhich(t)
        \/ ResolveGlob(t)
        \/ ResolveReturn(t)

SpecResolve == InitResolve /\ [][NextResolve]_vars

\* scripts that print and end with return_bool or return_json, run through
\* execute_and_parse_bool and execute_and_parse_json
ParseWrites == 2

ParseSegments == { <<"4", "2", NL>>, <<"x", NL>> }

ParseReturnValues ==
    { PyStr(<<"t", "r", "u", "t", "h", "y">>), PyStr(<<>>), PyBool(TRUE), PyInt(0),
      PyList(<<PyStr(<<"a">>), PyInt(1)>>), PyDict(<<>>) }

EngineWriteParse == EngineWrites(ParseSegments)

EngineReturn == EngineReturns(ParseReturnValues)

InitParse ==
    /\ host = LinuxHost("None", "ok", NoEnviron)
    /\ execute_scripts_with_process_check = FALSE
    /\ ProcessInit
    /\ RunnerInit
    /\ call_limit = 1
    /\ writes_left = ParseWrites
    /\ PureIdle

NextParse ==
    \/ ExecuteAndParseJson(ClassifyChoices)
    \/ ExecuteAndParseBool(ClassifyChoices)
    \/ EngineWriteParse
    \/ EngineReturn
    \/ ExchangeComplete

SpecParse == InitParse /\ [][NextParse]_vars

\* a script that raises inside the engine: the exception hook prints the
\* traceback, frame by frame, and the sentinel
TraceWrites == 4

\* the frame of the code gimp reads from its standard input
STDIN_FRAME == <<" ", " ", "File \"<stdin>\"", ", line 30", NL>>

\* a frame of code compiled from a string, as exec(open(...).read()) does
SCRIPT_FRAME == <<" ", " ">> \o ANONYMOUS_SOURCE \o <<", line 2", NL>>

TraceSegments == { STDIN_FRAME, SCRIPT_FRAME, <<"E", NL>>, SENTINEL_LINE }

EngineWriteTrace == EngineWrites(TraceSegments)

InitTrace ==
    /\ host = LinuxHost("None", "ok", NoEnviron)
    /\ execute_scripts_with_process_check = FALSE
    /\ ProcessInit
    /\ RunnerInit
    /\ call_limit = 1
    /\ writes_left = TraceWrites
    /\ PureIdle

NextTrace ==
    \/ Execute(ClassifyChoices)
    \/ ExecuteFile(ClassifyChoices)
    \/ EngineWriteTrace
    \/ ExchangeComplete

SpecTrace == InitTrace /\ [][NextTrace]_vars

\* several calls on one runner, execute_file and execute in any order, the
\* scripts raising inside the engine
SequenceCalls == 2

SequenceWrites == 3

SequenceSegments == { SCRIPT_FRAME, SENTINEL_LINE }

SequenceChoices == [parameters |-> { <<>> }, timeouts |-> {"None", "3"}]

EngineWriteSequence == EngineWrites(SequenceSegments)

InitSequence ==
    /\ host = LinuxHost("None", "ok", NoEnviron)
    /\ execute_scripts_with_process_check = FALSE
    /\ ProcessInit
    /\ RunnerInit
    /\ call_limit = SequenceCalls
    /\ writes_left = SequenceWrites
    /\ PureIdle

NextSequence ==
    \/ Execute(SequenceChoices)
    \/ ExecuteFile(SequenceChoices)
    \/ EngineWriteSequence
    \/ ExchangeComplete
    \/ ExchangeTimeout

SpecSequence == InitSequence /\ [][NextSequence]_vars

\* execute_binary of a script that writes bytes, among warnings of gimp
BinaryWrites == 5

BinarySegments == { WarningBlock, <<NL>>, <<"x">>, <<ZERO_BYTE, HIGH_BYTE>> }

EngineWriteBinary == EngineWrites(BinarySegments)

InitBinary ==
    /\ host = LinuxHost("None", "ok", NoEnviron)
    /\ execute_scripts_with_process_check = FALSE
    /\ ProcessInit
    /\ RunnerInit
    /\ call_limit = 1
    /\ writes_left = BinaryWrites
    /\ PureIdle

NextBinary ==
    \/ ExecuteBinary(ClassifyChoices)
    \/ EngineWriteBinary
    \/ ExchangeComplete

SpecBinary == InitBinary /\ [][NextBinary]_vars

(***************************************************************************)
(* The interpreter inside the child runs the program it reads from its     *)
(* standard input, statement by statement.                                 *)
(***************************************************************************)
IsStatement(c) == c # NL

\* the statements of a program text: its non-empty lines
Program(text) == SelectSeq(text, IsStatement)

\* what the default exception hook prints for an uncaught exception
Traceback(exception) ==
    <<"Traceback (most recent call last):", NL>> \o STDIN_FRAME \o <<exception, NL>>

\* os.environ[name]: the lookup is recorded, KeyError without the variable
Lookup(e, name, env) ==
    [engine |-> [e EXCEPT !.read = @ \cup {name}],
     exception |-> IF name \in DOMAIN env THEN "None" ELSE "KeyError"]

\* 'name' in os.environ
Probe(e, name) == [engine |-> [e EXCEPT !.read = @ \cup {name}], exception |-> "None"]

\* the effect of one statement on the interpreter e of a child with
\* environment env; fails: a call into the file system, or the caller's own
\* statement, raises
Effect(e, statement, env, fails) ==
    CASE statement = "binary = bool(os.environ['__binary__'])" ->
            Lookup(e, "__binary__", env)
      [] statement = "stdout_file = os.environ['__stdout__']" ->
            Lookup(e, "__stdout__", env)
      [] statement = "sys.stdout = open(stdout_file, 'w' if not binary else 'wb')" ->
            IF fails THEN [engine |-> e, exception |-> "IOError"]
            ELSE [engine |-> [e EXCEPT !.stdout = "file"], exception |-> "None"]
      [] statement = "stderr_file = os.environ['__stderr__']" ->
            Lookup(e, "__stderr__", env)
      [] statement = "sys.stderr = open(stderr_file, 'w')" ->
            IF fails THEN [engine |-> e, exception |-> "IOError"]
            ELSE [engine |-> [e EXCEPT !.stderr = "file"], exception |-> "None"]
      [] statement = "sys.excepthook = __exception_hook" ->
            [engine |-> [e EXCEPT !.excepthook = TRUE], exception |-> "None"]
      [] statement = "if '__working_directory__' in os.environ: os.chdir(os.environ['__working_directory__'])" ->
            IF fails /\ "__working_directory__" \in DOMAIN env
            THEN [engine |-> Probe(e, "__working_directory__").engine, exception |-> "OSError"]
            ELSE Probe(e, "__working_directory__")
      [] statement = "if '__PYTHONPATH__' in os.environ: sys.path.append(...)" ->
            Probe(e, "__PYTHONPATH__")
      [] statement = "pdb.gimp_quit(0)" ->
            [engine |-> [e EXCEPT !.state = "quit"], exception |-> "None"]
      [] statement \in {"import os, sys, gimp",
                        "def __exception_hook(exctype, value, traceback): ...",
                        "sys.path.append(os.getcwd())"} \cup Range(EXTEND_PATH) ->
            [engine |-> e, exception |-> "None"]
      [] OTHER ->
            \* a statement of the caller
            [engine |-> e, exception |-> IF fails THEN "Exception" ELSE "None"]

\* an exception nobody catches ends the program: __exception_hook prints the
\* traceback and the sentinel and quits gimp; without it the traceback is all
Uncaught(e) == [e EXCEPT !.state = IF e.excepthook THEN "quit" ELSE "failed"]

\* what reaches the child's stderr for the exception: nothing once sys.stderr
\* is a file of its own
UncaughtText(e, exception) ==
    IF e.stderr = "file" THEN <<>>
    ELSE Traceback(exception) \o (IF e.excepthook THEN SENTINEL_LINE ELSE <<>>)

engineFrame ==
    <<processVars, file_to_execute, gimp_process, pc, request, outcome,
      parse_returned, helper, descendants, process_children, children, elapsed,
      stdin, stdout_buf, output_closed, error_closed, invocations, call_limit,
      writes_left, stripVars, roundTripVars, resolver, warningVars, copyVars>>

\* python-fu-eval execs what it read from the standard input: the text is
\* compiled as a whole, and nothing of it runs when that fails
EngineStart ==
    \E compiles \in BOOLEAN :
        /\ pc = "exchanging"
        /\ gimp_process.state = "running"
        /\ engine.id # gimp_process.id
        /\ engine' = [NoEngine EXCEPT !.id = gimp_process.id,
                                      !.state = IF compiles THEN "running" ELSE "failed",
                                      !.at = IF compiles THEN 1 ELSE 0]
        /\ stderr_buf' = IF compiles THEN stderr_buf
                         ELSE stderr_buf \o Traceback("SyntaxError")
        /\ UNCHANGED engineFrame

\* the interpreter runs its next statement
EngineStep ==
    \E fails \in BOOLEAN :
        LET program == Program(stdin)
            done == Effect(engine, program[engine.at], gimp_process.env, fails)
        IN
        /\ pc = "exchanging"
        /\ gimp_process.state = "running"
        /\ engine.id = gimp_process.id
        /\ engine.state = "running"
        /\ engine.at <= Len(program)
        /\ IF done.exception = "None"
           THEN /\ engine' = [done.engine EXCEPT !.at = @ + 1]
                /\ UNCHANGED stderr_buf
           ELSE /\ engine' = Uncaught(done.engine)
                /\ stderr_buf' = stderr_buf \o UncaughtText(done.engine, done.exception)
        /\ UNCHANGED engineFrame

\* runners with and without the variables initializer.py looks up in their
\* environment argument
BootstrapCalls == 2

SINK_VARIABLES == {"__binary__", "__stdout__", "__stderr__"}

BootstrapEnvironments ==
    { NoEnviron,
      [k \in {"__binary__"} |-> PyStr(<<>>)],
      [k \in SINK_VARIABLES |->
          IF k = "__binary__" THEN PyStr(<<>>) ELSE PyStr(<<"/tmp/", k>>)] }

InitBootstrap ==
    /\ host = LinuxHost("None", "ok", NoEnviron)
    /\ execute_scripts_with_process_check = FALSE
    /\ EXECUTABLE_GIMP_PATH = "None"
    /\ PYTHON2_PYTHONPATH = "None"
    /\ environment \in BootstrapEnvironments
    /\ RunnerInit
    /\ call_limit = BootstrapCalls
    /\ writes_left = 0
    /\ PureIdle

NextBootstrap ==
    \/ Execute(ClassifyChoices)
    \/ ExecuteBinary(ClassifyChoices)
    \/ ExecuteFile(ClassifyChoices)
    \/ EngineStart
    \/ EngineStep
    \/ ExchangeComplete

SpecBootstrap == InitBootstrap /\ [][NextBootstrap]_vars

(***************************************************************************)
(* Direct calls of strip_initialization_warnings, and the classification   *)
(* of a stderr made of the same lines                                      *)
(***************************************************************************)
MaxWarningLines == 3

\* the lines explored: empty, a warning with and without text, an indented
\* warning, other text
WarningLineChoices ==
    { <<>>, INIT_WARNING, INIT_WARNING \o <<" ", "x">>, <<" ">> \o INIT_WARNING, <<"E">> }

RECURSIVE LineLists(_)
\* the lists of at most n lines
LineLists(n) ==
    IF n = 0 THEN {<<>>}
    ELSE LET shorter == LineLists(n - 1)
         IN  shorter \cup {Append(l, line) : l \in shorter, line \in WarningLineChoices}

InitWarnings ==
    /\ host = LinuxHost("None", "ok", NoEnviron)
    /\ execute_scripts_with_process_check = FALSE
    /\ ProcessInit
    /\ RunnerInit
    /\ call_limit = 0
    /\ writes_left = 0
    /\ StripIdle
    /\ RoundTripIdle
    /\ ResolverIdle
    /\ EngineIdle
    /\ CopyIdle
    /\ warning_lines \in LineLists(MaxWarningLines)
    /\ warning_result = NotCalled
    /\ warning_raise = NotCalled

warningFrame ==
    <<processVars, runnerVars, stripVars, roundTripVars, resolver, engine, copyVars>>

CallStripInitializationWarnings ==
    /\ warning_result.kind = "none"
    /\ warning_result' = Returned(strip_initialization_warnings(warning_lines))
    /\ UNCHANGED <<warning_lines, warning_raise, warningFrame>>

\* lines 432-474 for an engine that printed the lines to stderr and nothing
\* to stdout, text mode, no sinks
ClassifyWarningLines ==
    /\ warning_raise.kind = "none"
    /\ warning_raise' = Classify(<<>>, Join(warning_lines), FALSE, FALSE, FALSE, "None")
    /\ UNCHANGED <<warning_lines, warning_result, warningFrame>>

NextWarnings == CallStripInitializationWarnings \/ ClassifyWarningLines

SpecWarnings == InitWarnings /\ [][NextWarnings]_vars

(***************************************************************************)
(* GimpFileCollection.copy_layer_from                                      *)
(***************************************************************************)
\* os.path.dirname
dirname(p) ==
    LET head == SliceTo(p, RFind(p, <<"/">>) + 1)
        solid == {i \in 1..Len(head) : head[i] # "/"}
    IN  IF solid = {} THEN head ELSE SliceTo(head, MaxOf(solid))

\* os.path.commonprefix: the longest text every file begins with
commonprefix(files) ==
    LET shortest == MinOf({Len(files[i]) : i \in 1..Len(files)})
        agree == {k \in 0..shortest :
                     \A i \in 1..Len(files) : SliceTo(files[i], k) = SliceTo(files[1], k)}
    IN  SliceTo(files[1], MaxOf(agree))

\* os.path.isdir
isdir(p, dirs) ==
    /\ p # <<>>
    /\ \/ p \in dirs
       \/ p[Len(p)] = "/" /\ SliceTo(p, Len(p) - 1) \in dirs

\* GimpFileCollection.get_prefix
get_prefix(files, dirs) ==
    IF files = <<>> THEN <<>>
    ELSE IF Len(files) = 1 THEN dirname(files[1]) \o <<"/">>
    ELSE IF isdir(commonprefix(files), dirs) THEN commonprefix(files)
    ELSE dirname(commonprefix(files)) \o <<"/">>

\* map(lambda file: file[len(prefix):], files), as a set
WithoutPrefix(files, prefix) == {SliceFrom(files[i], Len(prefix)) : i \in 1..Len(files)}

\* lines 492-498: line 495 maps over other_collection._files
missing(c) ==
    LET prefix_in_other_collection == get_prefix(c.other, c.dirs)
        files_in_other_collection == WithoutPrefix(c.other, prefix_in_other_collection)
        prefix_in_this_collection == get_prefix(c.this, c.dirs)
        files_in_this_collection == WithoutPrefix(c.other, prefix_in_this_collection)
    IN  IF ~c.other_can_be_smaller
        THEN files_in_this_collection \ files_in_other_collection
        ELSE {}

\* the script of lines 505-531
COPY_LAYER_SCRIPT ==
    << "import os", NL,
       "from pgimp.gimp.parameter import get_json, get_string, get_int, get_bool, return_json", NL,
       "files = get_json('__files__')", NL,
       "for file in files: copy_or_merge_layer(...)", NL,
       "return_json(None)", NL >>

\* lines 535-541
CopyLayerParameters(c) ==
    << Param("prefix_in_other_collection", PyStr(get_prefix(c.other, c.dirs))),
       Param("prefix_in_this_collection", PyStr(get_prefix(c.this, c.dirs))),
       Param("layer_name", PyStr(<<"W">>)),
       Param("layer_position", PyInt(0)),
       Param("other_can_be_smaller", PyBool(c.other_can_be_smaller)) >>

MaxFiles == 2

CopyPaths ==
    { <<"s", "/", "a">>, <<"s", "/", "b">>, <<"d", "/", "a">>, <<"d", "/", "b">> }

RECURSIVE FileLists(_)
\* the lists of at most n files
FileLists(n) ==
    IF n = 0 THEN {<<>>}
    ELSE LET shorter == FileLists(n - 1)
         IN  shorter \cup {Append(l, f) : l \in shorter, f \in CopyPaths}

InitCopy ==
    /\ host = LinuxHost("None", "ok", NoEnviron)
    /\ execute_scripts_with_process_check = FALSE
    /\ ProcessInit
    /\ RunnerInit
    /\ call_limit = 1
    /\ writes_left = 1
    /\ StripIdle
    /\ RoundTripIdle
    /\ ResolverIdle
    /\ EngineIdle
    /\ WarningIdle
    /\ collections \in [this : FileLists(MaxFiles), other : FileLists(MaxFiles),
                         dirs : {{}, {dirname(f) : f \in CopyPaths}},
                         other_can_be_smaller : BOOLEAN]
    /\ copy_result = NotCalled

\* copy_layer_from up to the script: lines 492-503
CopyLayerCheck ==
    /\ copy_result.kind = "none"
    /\ copy_result' =
          IF missing(collections) # {}
          THEN Raised("MissingFilesException",
                      <<"The other collection is smaller than this collection by the following entries: ",
                        "', '.join(missing)">>)
          ELSE [kind |-> "script", value |-> <<>>]
    /\ UNCHANGED <<collections, processVars, runnerVars, stripVars, roundTripVars,
                   resolver, engine, warningVars>>

\* lines 533-543: execute_script_and_return_json takes the branch of line 426
\* and hands the script, with the files of this collection, to its runner
CopyLayerRun ==
    LET parameters == PutParameter(CopyLayerParameters(collections),
                                   Param("__files__",
                                         PyList([i \in 1..Len(collections.this) |->
                                                    PyStr(collections.this[i])])))
    IN
    /\ copy_result.kind = "script"
    /\ SendToGimp("execute_and_parse_json", COPY_LAYER_SCRIPT, FALSE, parameters,
                  parameters, "None", FALSE, FALSE, file_to_execute)

\* the script ends with return_json(None), or the engine prints something else
CopyScriptPrints == EngineWrites({return_json(PyNone)})

NextCopy ==
    \/ CopyLayerCheck
    \/ CopyLayerRun
    \/ CopyScriptPrints
    \/ ExchangeComplete

SpecCopy == InitCopy /\ [][NextCopy]_vars

(***************************************************************************)
(* Properties                                                              *)
(***************************************************************************)
\* control is back with the caller of an invocation
Terminal == pc \in {"returned", "raised"} /\ invocations > 0

\* the caller observes the exception of line 427
IsExchangeTimeout ==
    /\ Terminal
    /\ outcome.kind = "GimpScriptExecutionTimeoutException"
    /\ Head(outcome.value) = "Command timed out after "

\* the caller observes the exception of lines 494-495
IsStartTimeout ==
    /\ Terminal
    /\ outcome.kind = "GimpScriptExecutionTimeoutException"
    /\ Head(outcome.value) = "Child processes "

\* the child of the invocation that has just ended
SpawnedChild == gimp_process.id = invocations

HasHighByte(bytes) == \E i \in 1..Len(bytes) : bytes[i] = HIGH_BYTE

\* where the last line holding a non-whitespace character begins (1-based),
\* 0 when there is no such line
LastLineStart(text) ==
    LET solid == {i \in 1..Len(text) : text[i] \notin Whitespace} IN
    IF solid = {} THEN 0
    ELSE LET breaks == {i \in MinOf(solid)..MaxOf(solid) : text[i] = NL}
         IN  IF breaks = {} THEN MinOf(solid) ELSE MaxOf(breaks) + 1

\* the last non-empty line, without the whitespace that trails it
LastNonEmptyLine(text) ==
    IF LastLineStart(text) = 0 THEN <<>>
    ELSE SubSeq(text, LastLineStart(text),
                MaxOf({i \in 1..Len(text) : text[i] \notin Whitespace}))

SentinelLast(text) == StartsWith(LastNonEmptyLine(text), SCRIPT_ERROR_TOKEN)

\* everything in front of the last non-empty line
TextBeforeLastLine(text) == SubSeq(text, 1, LastLineStart(text) - 1)

IsSuffix(t, s) == \E k \in 0..Len(s) : t = SliceFrom(s, k)

(***************************************************************************)
(* C1.  When the exchange exceeds the caller's timeout, the child and every *)
(* descendant the last poll listed are killed by the time the caller sees   *)
(* GimpScriptExecutionTimeoutException.                                     *)
(***************************************************************************)
C1_TimeoutKillsChildAndTracked ==
    IsExchangeTimeout =>
        /\ gimp_process.state = "killed"
        /\ \A n \in process_children : descendants[n] # "running"

C1_TrackedDescendantKilled ==
    /\ IsExchangeTimeout
    /\ execute_scripts_with_process_check
    /\ \E n \in process_children : descendants[n] = "killed"

\* C1 as stated: after the timeout exception no child and no descendant of
\* the invocation is alive, tracked or not
C1_NoLiveDescendantAfterTimeout ==
    IsExchangeTimeout =>
        /\ gimp_process.state # "running"
        /\ Running(descendants) = {}

(***************************************************************************)
(* C2.  Whatever the outcome, the child spawned for an invocation is not   *)
(* running any more when control returns to the caller.                    *)
(***************************************************************************)
C2_ChildGoneOnReturn ==
    (Terminal /\ SpawnedChild) => gimp_process.state \in {"exited", "killed"}

\* the start timeout hands control back while the child still runs
C2_StartTimeoutLeavesChild ==
    /\ IsStartTimeout
    /\ SpawnedChild
    /\ gimp_process.state = "running"

(***************************************************************************)
(* C3.  A sink supplied by the caller is closed when control returns, on   *)
(* every exit path.                                                        *)
(***************************************************************************)
C3_SinksClosedOnReturn ==
    Terminal =>
        /\ request.output_stream => output_closed
        /\ request.error_stream => error_closed

\* the exchange timeout hands control back with both sinks open
C3_TimeoutLeavesSinksOpen ==
    /\ IsExchangeTimeout
    /\ request.output_stream /\ ~output_closed
    /\ request.error_stream /\ ~error_closed

C5_ErrorText == strip_gimp_warnings(StderrBytes)

C5_OutputText ==
    strip_gimp_warnings(IF request.binary THEN decode_latin1(StdoutBytes)
                        ELSE StdoutBytes)

C5_Decodes ==
    /\ request.binary \/ ~HasHighByte(StdoutBytes)
    /\ ~HasHighByte(StderrBytes)
    /\ ~IsRaise(C5_ErrorText)
    /\ ~IsRaise(C5_OutputText)

C5_NoSentinel ==
    /\ ~SentinelLast(C5_ErrorText.value)
    /\ request.output_stream \/ request.binary \/ ~SentinelLast(StdoutBytes)
    /\ request.binary => ~SentinelLast(C5_OutputText.value)

C5_OnlyWarnings ==
    \/ LastNonEmptyLine(C5_ErrorText.value) = <<>>
    \/ StartsWith(LastNonEmptyLine(C5_ErrorText.value), INIT_WARNING)

C5_SurvivingStdout ==
    IF request.binary THEN Returned(encode_latin1(C5_OutputText.value))
    ELSE IF request.output_stream THEN ReturnedNone
    ELSE C5_OutputText

C5_OutcomeWithoutSentinel ==
    (Terminal /\ C5_Decodes /\ C5_NoSentinel) =>
        IF C5_OnlyWarnings
        THEN outcome = C5_SurvivingStdout
        ELSE /\ outcome.kind = "GimpScriptException"
             /\ outcome.value # <<>>
             /\ IsSuffix(outcome.value, Strip(C5_ErrorText.value))

\* stderr without sentinel makes the invocation raise
C5_PlainStderrRaised ==
    /\ Terminal /\ C5_Decodes /\ C5_NoSentinel
    /\ ~C5_OnlyWarnings
    /\ stderr_buf = <<"E">>
    /\ outcome = Raised("GimpScriptException", <<"E">>)

\* C5 as stated: without a sentinel the invocation does not raise
C5_NoSentinelNoRaise ==
    (Terminal /\ C5_Decodes /\ C5_NoSentinel) => outcome = C5_SurvivingStdout

(***************************************************************************)
(* C6.  When the sentinel is the last non-empty line of stderr, the        *)
(* message of GimpScriptException is the text in front of the sentinel     *)
(* line, whatever follows the sentinel and whatever precedes it.           *)
(***************************************************************************)
C6_MessagePrecedesSentinel ==
    ( /\ Terminal
      /\ request.entry = "execute"
      /\ ~request.error_stream
      /\ StdoutBytes = <<>>
      /\ ~HasHighByte(stderr_buf)
      /\ ~StartsWith(stderr_buf, GIMP_WARNING_START)
      /\ SentinelLast(stderr_buf) )
    => outcome = Raised("GimpScriptException", TextBeforeLastLine(stderr_buf))

\* the sentinel line comes back as the message
C6_SentinelInMessage ==
    /\ Terminal
    /\ stderr_buf = SENTINEL_LINE \o <<NL>>
    /\ outcome = Raised("GimpScriptException", SENTINEL_LINE \o <<NL>>)

(***************************************************************************)
(* C7.  strip_gimp_warnings gives back the payload O behind N >= 0 warning *)
(* blocks when O does not begin with '\n(gimp:' and, for N >= 1, does not  *)
(* contain '\n\n(gimp:'; a payload beginning with '(gimp:' right after the *)
(* newline that ends the last block is kept.                               *)
(***************************************************************************)
C7_Blocks(n) == Repeat(WarningBlock, n)

C7_Payload(n) == SliceFrom(strip_input, Len(C7_Blocks(n)))

C7_StripReturnsPayload ==
    strip_result # NotCalled =>
        \A n \in 0..(MaxBlocks + 1) :
            ( /\ StartsWith(strip_input, C7_Blocks(n))
              /\ ~StartsWith(C7_Payload(n), GIMP_WARNING_START)
              /\ n >= 1 => Occurrences(C7_Payload(n), to_find) = {} )
            => strip_result = Returned(C7_Payload(n))

\* two blocks in front of a payload that begins with the marker text
C7_MarkerPayloadKept ==
    /\ strip_input = C7_Blocks(2) \o GimpTag \o <<"x">>
    /\ strip_result = Returned(GimpTag \o <<"x">>)

\* C7 as stated, for payloads that begin with something else than a newline:
\* any such payload behind one or more blocks comes back
C7_AnyPayloadReturned ==
    strip_result # NotCalled =>
        \A n \in 1..(MaxBlocks + 1) :
            ( /\ StartsWith(strip_input, C7_Blocks(n))
              /\ C7_Payload(n) # <<>>
              /\ Head(C7_Payload(n)) # NL )
            => strip_result = Returned(C7_Payload(n))

(***************************************************************************)
(* C8.  The message of the exchange timeout holds the whole program that   *)
(* was sent: bootstrap, caller code and the quit call.                     *)
(***************************************************************************)
C8_TimeoutMessageHoldsProgram ==
    IsExchangeTimeout =>
        /\ stdin = INITIALIZER \o EXTEND_PATH \o request.code \o QUIT_GIMP
        /\ Occurrences(outcome.value, stdin) # {}

C8_FileProgramInMessage ==
    /\ IsExchangeTimeout
    /\ request.entry = "execute_file"
    /\ Occurrences(outcome.value, EXEC_SCRIPT_FILE \o QUIT_GIMP) # {}

(***************************************************************************)
(* C9.  A parameter of a type without encoding makes the invocation raise  *)
(* before the engine child is spawned; the exception is                    *)
(* GimpScriptException 'Cannot interpret parameter type <T>' whenever the  *)
(* gimp executable and the python2 search path resolved.                   *)
(***************************************************************************)
C9_HasUnsupported ==
    \E i \in 1..Len(request.parameters) : request.parameters[i].value.type = "set"

C9_Resolved == EXECUTABLE_GIMP_PATH # "None" /\ PYTHON2_PYTHONPATH # "None"

C9_UnsupportedRaisesBeforeChild ==
    (invocations > 0 /\ C9_HasUnsupported) =>
        /\ pc = "raised"
        /\ ~SpawnedChild
        /\ C9_Resolved =>
               outcome = Raised("GimpScriptException", <<CANNOT_INTERPRET, "set">>)

\* the second parameter of a second invocation is the one without encoding
C9_SecondParameterRejected ==
    /\ invocations = 2
    /\ Len(request.parameters) >= 2
    /\ C9_HasUnsupported
    /\ gimp_process.id = 1
    /\ outcome = Raised("GimpScriptException", <<CANNOT_INTERPRET, "set">>)

\* C9 as stated, where gimp and python2 are installed: that exception, and
\* no process at all before it
C9_NoProcessBeforeRaise ==
    (invocations > 0 /\ C9_HasUnsupported /\ C9_Resolved) =>
        /\ outcome = Raised("GimpScriptException", <<CANNOT_INTERPRET, "set">>)
        /\ helper = "none"
        /\ ~SpawnedChild

(***************************************************************************)
(* C10.  A parameter whose value is None is dropped: the invocation goes   *)
(* on and the child's environment has no variable for it.                  *)
(***************************************************************************)
C10_HasNone ==
    \E i \in 1..Len(request.parameters) : request.parameters[i].value = PyNone

C10_NoneParameterDropped ==
    (invocations > 0 /\ C10_HasNone /\ C9_Resolved) =>
        /\ SpawnedChild
        /\ "p" \notin DOMAIN gimp_process.env

\* the None value is rejected like a value of an unknown type
C10_NoneRejected ==
    /\ invocations > 0
    /\ C10_HasNone
    /\ ~SpawnedChild
    /\ outcome = Raised("GimpScriptException", <<CANNOT_INTERPRET, "NoneType">>)

\* the encodings of the explored values, as python writes them
C11_Expected(v) ==
    CASE v = PyStr(<<"v">>) -> <<"v">>
      [] v = PyStr(<<>>) -> <<>>
      [] v = PyBool(TRUE) -> <<"T", "r", "u", "e">>
      [] v = PyInt(-12) -> <<"-", "1", "2">>
      [] v = PyFloat(-3) -> <<"-", "1", ".", "5">>
      [] v = PyBytes(<<ZERO_BYTE, "'">>) -> <<"b", "\"", "\\", "x", "0", "0", "'", "\"">>
      [] v = PyList(<<PyInt(1), PyStr(<<"a">>)>>)
            -> <<"[", "1", ",", " ", "\"", "a", "\"", "]">>
      [] v = PyTuple(<<PyBool(TRUE), PyNone>>)
            -> <<"[", "t", "r", "u", "e", ",", " ", "n", "u", "l", "l", "]">>
      [] v = PyDict(<<PyItem(<<"k">>, PyList(<<PyFloat(1)>>))>>)
            -> <<"{", "\"", "k", "\"", ":", " ", "[", "0", ".", "5", "]", "}">>

\* the child of the invocation in progress holds the parameter in its
\* environment, encoded
C11_Handed(parameter) ==
    /\ parameter.name \in DOMAIN gimp_process.env
    /\ gimp_process.env[parameter.name] = C11_Expected(parameter.value)

C11_Spawned == gimp_process.state # "none" /\ gimp_process.id = invocations

\* C11 (as amended): every caller parameter of a supported kind is in the
\* child's environment under its own name, a str as itself, a bool, int,
\* float or bytes as its repr, a list, tuple or dict as its JSON text, ahead
\* of a same-named variable of the host or of the runner; the one exception
\* is a parameter named __script_file__ given to execute_file, which
\* execute_file replaces by the path of the file.
C11_ParametersInChildEnvironment ==
    C11_Spawned =>
        \A k \in 1..Len(request.given) :
            ~(request.entry = "execute_file" /\ request.given[k].name = "__script_file__")
                => C11_Handed(request.given[k])

\* a bytes parameter reached the child ahead of the host's and the runner's
\* variable of the same name
C11_ParameterOverHostAndRunner ==
    /\ C11_Spawned
    /\ "p" \in DOMAIN host.environ
    /\ "p" \in DOMAIN environment /\ environment["p"] # PyNone
    /\ request.given = <<Param("p", PyBytes(<<ZERO_BYTE, "'">>))>>
    /\ C11_Handed(request.given[1])

\* C11 as stated: every caller parameter of a supported kind is in the
\* child's environment under its own name with its encoded value
C11_EveryParameterInChildEnvironment ==
    C11_Spawned => \A k \in 1..Len(request.given) : C11_Handed(request.given[k])

\* the accessor that matches the kind of a value
C12_Matching(v) ==
    CASE v.type = "str" -> "get_string"
      [] v.type = "bool" -> "get_bool"
      [] v.type = "int" -> "get_int"
      [] v.type = "float" -> "get_float"
      [] v.type = "bytes" -> "get_bytes"
      [] OTHER -> "get_json"

RECURSIVE C12_TuplesAsLists(_)
\* the value with every tuple in it replaced by the list of its elements
C12_TuplesAsLists(v) ==
    [v EXCEPT !.type = IF v.type = "tuple" THEN "list" ELSE v.type,
              !.items = [k \in 1..Len(v.items) |-> C12_TuplesAsLists(v.items[k])]]

\* the parameter was encoded and read back by the accessor of its kind
C12_ReadBack ==
    /\ rt_text.kind = "return"
    /\ rt_result.accessor = C12_Matching(rt_value)
    /\ rt_result.name = "p"

\* C12 (as amended): a supported parameter value that is encoded and then
\* read by the matching accessor comes back equal to the original, except
\* that every tuple comes back as the list of its elements
C12_RoundTripUpToTuples ==
    C12_ReadBack => /\ rt_result.kind = "return"
                    /\ rt_result.value = C12_TuplesAsLists(rt_value)

\* a tuple was read back as a list
C12_TupleReadAsList ==
    /\ C12_ReadBack
    /\ rt_value = PyTuple(<<PyInt(1), PyInt(2)>>)
    /\ rt_result.value = PyList(<<PyInt(1), PyInt(2)>>)

\* C12 as stated: the value read back is equal to the original
C12_RoundTripEqual ==
    C12_ReadBack => rt_result.kind = "return" /\ rt_result.value = rt_value

\* execute_binary gave bytes back to its caller
C13_Returned ==
    /\ Terminal
    /\ request.entry = "execute_binary"
    /\ outcome.kind = "return"

\* the warning blocks at the very start of stdout, and what follows them
C13_Preamble == MaxOf({n \in 0..BinaryWrites : StartsWith(stdout_buf, Repeat(WarningBlock, n))})

C13_Payload(n) == SliceFrom(stdout_buf, Len(Repeat(WarningBlock, n)))

\* C13 (as amended): execute_binary returns byte for byte what follows the
\* leading warning blocks on stdout, for every byte value, when that payload
\* does not begin with the marker of a warning and, behind a preamble, does
\* not hold the marker after a blank line
C13_BinaryPayloadReturned ==
    C13_Returned =>
        \A n \in 0..BinaryWrites :
            ( /\ StartsWith(stdout_buf, Repeat(WarningBlock, n))
              /\ ~StartsWith(C13_Payload(n), GIMP_WARNING_START)
              /\ n >= 1 => Occurrences(C13_Payload(n), to_find) = {} )
            => outcome.value = C13_Payload(n)

\* the bytes 0x00 and 0xFF came back unchanged from behind a warning
C13_HighAndZeroByteReturned ==
    /\ C13_Returned
    /\ stdout_buf = WarningBlock \o <<ZERO_BYTE, HIGH_BYTE>>
    /\ outcome.value = <<ZERO_BYTE, HIGH_BYTE>>

\* C13 as stated: execute_binary returns byte for byte what follows the
\* leading warning preamble, whatever bytes the payload holds
C13_AnyBinaryPayloadReturned ==
    ( /\ C13_Returned
      /\ C13_Payload(C13_Preamble) # <<>>
      /\ Head(C13_Payload(C13_Preamble)) # NL )
        => outcome.value = C13_Payload(C13_Preamble)

\* the stream whose last line carries the sentinel: stdout when it is read
\* and ends with it, else stderr
C14_ErrorSource ==
    IF ~request.output_stream /\ SentinelLast(stdout_buf) THEN stdout_buf ELSE stderr_buf

\* a script run through execute_file raised inside the engine, with a frame
\* of anonymous source in its traceback
C14_ScriptFileRaised ==
    /\ Terminal
    /\ request.entry = "execute_file"
    /\ C14_ErrorSource = stderr_buf => ~request.error_stream
    /\ SentinelLast(C14_ErrorSource)
    /\ Occurrences(C14_ErrorSource, ANONYMOUS_SOURCE) # {}

\* C14: when a script run through execute_file raises inside the engine, the
\* message of the GimpScriptException names the path of the script file where
\* the traceback first names the anonymous source, followed by the line of
\* that frame; the text in front of it is unchanged
C14_FileNamedInMessage ==
    C14_ScriptFileRaised =>
        LET first == Find(C14_ErrorSource, ANONYMOUS_SOURCE, 0)
            named == FileReference(SCRIPT_FILE)
        IN  /\ outcome.kind = "GimpScriptException"
            /\ SliceTo(outcome.value, first) = SliceTo(C14_ErrorSource, first)
            /\ SubSeq(outcome.value, first + 1, first + Len(named) + 1)
                   = named \o <<", line 2">>

\* a traceback whose frame of anonymous source follows the frame of the
\* code read from standard input
C14_ScriptFrameRenamed ==
    /\ C14_ScriptFileRaised
    /\ stderr_buf = STDIN_FRAME \o SCRIPT_FRAME \o <<"E", NL>> \o SENTINEL_LINE
    /\ outcome = Raised("GimpScriptException",
                         STDIN_FRAME \o <<" ", " ">> \o FileReference(SCRIPT_FILE)
                             \o <<", line 2", NL, "E", NL>>)

\* execute_and_parse_bool gave a value back to its caller
C15_ParseBoolReturned ==
    /\ Terminal
    /\ request.entry = "execute_and_parse_bool"
    /\ ~IsRaise(outcome)

\* C15 as stated: execute_and_parse_bool never returns a value that is not a
\* boolean, and returns True or False when the output of the script is what
\* return_bool prints for a truthy or a falsy value
C15_AlwaysBoolean ==
    C15_ParseBoolReturned =>
        /\ parse_returned.type = "bool"
        /\ stdout_buf = return_bool(PyBool(TRUE)) => parse_returned = PyBool(TRUE)
        /\ stdout_buf = return_bool(PyBool(FALSE)) => parse_returned = PyBool(FALSE)

\* execute_and_parse_bool returned the int 42 for a script that printed 42
C15_IntReturned ==
    /\ C15_ParseBoolReturned
    /\ stdout_buf = <<"4", "2", NL>>
    /\ parse_returned = PyInt(42)

\* neither the search path nor, on macOS, a well-known location holds gimp
C16_NoExecutable ==
    /\ host.which_gimp = "None"
    /\ host.platform = "darwin" => \A i \in 1..4 : host.glob[i] = <<>>

C16_Supported == host.platform \in {"linux", "linux2", "darwin"}

\* C16: an invocation on a host that is neither Linux nor macOS fails with
\* GimpUnsupportedOSException, one on a supported host without a gimp
\* executable with GimpNotInstalledException, and neither has spawned a
\* process: not the child and not the python2 helper
C16_PreconditionsRaiseBeforeSpawn ==
    invocations > 0 =>
        /\ ~C16_Supported =>
              /\ pc = "raised" /\ outcome.kind = "GimpUnsupportedOSException"
              /\ gimp_process = NoProcess /\ helper = "none"
        /\ C16_Supported /\ C16_NoExecutable =>
              /\ pc = "raised" /\ outcome.kind = "GimpNotInstalledException"
              /\ gimp_process = NoProcess /\ helper = "none"

\* an invocation on macOS without gimp failed before anything was spawned
C16_MacWithoutGimpRaised ==
    /\ invocations > 0
    /\ host.platform = "darwin" /\ C16_NoExecutable
    /\ outcome.kind = "GimpNotInstalledException"
    /\ gimp_process = NoProcess

\* the executable is resolved, on a host whose search path holds gimp
C17_FoundOnSearchPath ==
    /\ invocations > 0
    /\ EXECUTABLE_GIMP_PATH # "None"
    /\ host.which_gimp # "None"

\* C17 as stated: the well-known install locations are a fallback, so a gimp
\* found on the search path is the one that is used
C17_SearchPathFirst ==
    C17_FoundOnSearchPath =>
        /\ EXECUTABLE_GIMP_PATH = host.which_gimp
        /\ gimp_process.id = invocations => host.which_gimp \in Range(gimp_process.command)

\* on macOS the application bundle is run although the search path holds gimp
C17_BundleOverSearchPath ==
    /\ C17_FoundOnSearchPath
    /\ host.platform = "darwin"
    /\ EXECUTABLE_GIMP_PATH = "/Applications/Gimp-2.10.app/Contents/MacOS/gimp"
    /\ gimp_process.state = "running"
    /\ gimp_process.command[1] = EXECUTABLE_GIMP_PATH

\* C18 as stated: every call of path_to_gimp_executable that returns a path
\* returns the same path, also when first calls race
C18_OnePathReturned == Cardinality(resolver.returned \ {"None"}) <= 1

\* racing first calls on macOS returned the search path's gimp to one caller
\* and the application bundle's to another
C18_TwoPathsReturned ==
    /\ host.platform = "darwin"
    /\ resolver.returned = {"/opt/local/bin/gimp",
                            "/Applications/Gimp-2.10.app/Contents/MacOS/gimp"}

\* C19: with the process check on, the wrapped code is on the child's input
\* only when the last poll read the expected set of names, every expected
\* process having come up; and when the wait ends with the start timeout,
\* the processes the last poll listed are not running any more, the
\* invocation has raised the timeout exception and no code was written
C19_CodeWrittenAfterExpectedPoll ==
    execute_scripts_with_process_check =>
        /\ stdin # <<>> =>
              /\ children = ExpectedProcesses(host)
              /\ \A n \in ProcessNames(host) : descendants[n] # "absent"
              /\ ~IsStartTimeout
        /\ IsStartTimeout =>
              /\ pc = "raised"
              /\ stdin = <<>>
              /\ elapsed > CHILD_PROCESS_START_TIMEOUT
              /\ \A n \in process_children : descendants[n] # "running"

\* behind the display wrapper the code was written once Xvfb, gimp, script-fu
\* and python had all been seen
C19_WrittenBehindWrapper ==
    /\ execute_scripts_with_process_check
    /\ is_xvfb_present(host)
    /\ pc = "exchanging"
    /\ stdin = Wrap(request.code)
    /\ process_children = AllNames

\* the exchange of an invocation under the process check is over
C20_ExchangeEnded ==
    /\ execute_scripts_with_process_check
    /\ Terminal
    /\ SpawnedChild
    /\ gimp_process.state \in {"exited", "killed"}

\* C20: with the process check on, no descendant the last poll listed is
\* running once the exchange has ended, whether it completed, timed out, or
\* its output was classified as an error
C20_TrackedKilledAfterExchange ==
    C20_ExchangeEnded => \A n \in process_children : descendants[n] # "running"

\* the invocation returned its output and a tracked descendant was killed
C20_KilledOnSuccess ==
    /\ C20_ExchangeEnded
    /\ outcome.kind = "return"
    /\ \E n \in process_children : descendants[n] = "killed"

(***************************************************************************)
(* C21.  Whatever the mode and the sinks, the text written to the child's  *)
(* input is the content of initializer.py and the path extension, then the *)
(* caller's code unchanged, then the call that quits gimp; and the         *)
(* interpreter reaches the caller's first statement only with the hook of  *)
(* initializer.py installed as sys.excepthook.                             *)
(***************************************************************************)
\* the statements that run before the caller's first one
C21_BootstrapStatements == Len(InitializerStatements) + 1

C21_InCallerCode ==
    /\ engine.id = gimp_process.id
    /\ engine.at > C21_BootstrapStatements

C21_BootstrapCodeQuitInOrder ==
    /\ stdin # <<>> =>
          LET before == Len(INITIALIZER) + Len(EXTEND_PATH)
              code == request.code
          IN  /\ SubSeq(stdin, 1, Len(INITIALIZER)) = Lines(InitializerStatements) \o <<NL>>
              /\ Program(SubSeq(stdin, 1, before))[C21_BootstrapStatements] \in Range(EXTEND_PATH)
              /\ SubSeq(stdin, before + 1, before + Len(code)) = code
              /\ SliceFrom(stdin, before + Len(code)) = <<NL, "pdb.gimp_quit(0)">>
    /\ C21_InCallerCode => engine.excepthook
    /\ (engine.id = gimp_process.id /\ engine.state = "failed")
          => engine.at <= C21_BootstrapStatements

\* a statement of the file execute_file runs has raised: the hook was there
C21_CallerStatementRaisedUnderHook ==
    /\ pc = "exchanging"
    /\ request.entry = "execute_file"
    /\ C21_InCallerCode
    /\ engine.at <= C21_BootstrapStatements + Len(Program(request.code))
    /\ engine.state = "quit"
    /\ engine.excepthook

(***************************************************************************)
(* C22.  The program the child runs points sys.stdout and sys.stderr to    *)
(* files named by environment variables only when the caller asked for an  *)
(* output or error sink; for an invocation without sinks it neither        *)
(* reassigns the streams nor looks up __binary__, __stdout__, __stderr__.  *)
(***************************************************************************)
C22_Redirected == engine.stdout = "file" \/ engine.stderr = "file"

C22_RedirectionOnlyWhenRequested ==
    (engine.id = gimp_process.id /\ ~request.output_stream /\ ~request.error_stream)
        => /\ ~C22_Redirected
           /\ engine.read \cap SINK_VARIABLES = {}

\* execute without sinks: both streams of the engine point to files
C22_RedirectedWithoutSinks ==
    /\ engine.id = gimp_process.id
    /\ request.entry = "execute"
    /\ ~request.output_stream /\ ~request.error_stream
    /\ engine.stdout = "file" /\ engine.stderr = "file"
    /\ SINK_VARIABLES \subseteq engine.read

(***************************************************************************)
(* C23.  The command of every spawned child is: the path of xvfb-run and   *)
(* --auto-servernum exactly when xvfb-run is on the search path, then the  *)
(* resolved path of gimp, then -i -d -f --batch-interpreter=python-fu-eval *)
(* -b - in this order.                                                     *)
(***************************************************************************)
C23_Wrapper ==
    IF host.which_xvfb # "None" THEN <<host.which_xvfb, "--auto-servernum">> ELSE <<>>

C23_CommandVector ==
    gimp_process.state # "none" =>
        /\ EXECUTABLE_GIMP_PATH # "None"
        /\ gimp_process.command =
              C23_Wrapper \o <<EXECUTABLE_GIMP_PATH>>
                  \o <<"-i", "-d", "-f", "--batch-interpreter=python-fu-eval", "-b", "-">>

\* a child behind xvfb-run
C23_SpawnedBehindWrapper ==
    /\ gimp_process.state = "running"
    /\ gimp_process.command =
          <<"/usr/bin/xvfb-run", "--auto-servernum", "/usr/bin/gimp",
            "-i", "-d", "-f", "--batch-interpreter=python-fu-eval", "-b", "-">>

(***************************************************************************)
(* C24.  With an error_stream, what the engine writes to stderr goes to    *)
(* the stream and is never looked at.  When the exchange completes,        *)
(* execute closes the stream and returns None with an output_stream too;   *)
(* else it raises UnicodeDecodeError, the stream left open, for a stdout   *)
(* that is not utf-8; else it closes the stream and raises                 *)
(* GimpScriptException when the last non-empty line of stdout starts with  *)
(* the sentinel, and otherwise gives what strip_gimp_warnings makes of     *)
(* stdout: the text behind the warnings, or its GimpException.             *)
(***************************************************************************)
C24_ExecuteWithErrorStream ==
    /\ Terminal
    /\ request.entry = "execute"
    /\ request.error_stream

C24_ErrorStreamNeverInspected ==
    C24_ExecuteWithErrorStream =>
        IF request.output_stream
        THEN outcome = ReturnedNone /\ error_closed
        ELSE IF HasHighByte(stdout_buf)
        THEN outcome.kind = "UnicodeDecodeError" /\ ~error_closed
        ELSE /\ error_closed
             /\ IF SentinelLast(stdout_buf)
                THEN outcome.kind = "GimpScriptException"
                ELSE outcome = strip_gimp_warnings(stdout_buf)

\* stderr ends with the sentinel line and execute returns the stdout
C24_SentinelInSinkReturned ==
    /\ C24_ExecuteWithErrorStream
    /\ ~request.output_stream
    /\ SentinelLast(stderr_buf)
    /\ stdout_buf = <<"E">>
    /\ outcome = Returned(<<"E">>)
    /\ error_closed

\* C24 as stated, for a stdout that is captured: execute returns the stdout
\* text (behind the warnings of gimp) and the stream is closed, and it raises
\* only when the last non-empty line of stdout starts with the sentinel
C24_ReturnsStdoutOrSentinel ==
    (C24_ExecuteWithErrorStream /\ ~request.output_stream) =>
        IF IsRaise(outcome) THEN SentinelLast(stdout_buf)
        ELSE outcome = strip_gimp_warnings(stdout_buf) /\ error_closed

(***************************************************************************)
(* C25.  strip_initialization_warnings returns the lines behind the last   *)
(* line that starts with *WARNING* (all lines when there is none), and the *)
(* empty list when one empty line is all that remains; a stderr whose      *)
(* lines are initialization warnings and empty lines raises nothing.       *)
(***************************************************************************)
C25_IsWarning(line) == StartsWith(line, <<"*", "W", "A", "R", "N", "I", "N", "G", "*">>)

C25_OnlyWarnings ==
    /\ \E k \in 1..Len(warning_lines) : C25_IsWarning(warning_lines[k])
    /\ \A k \in 1..Len(warning_lines) :
          C25_IsWarning(warning_lines[k]) \/ warning_lines[k] = <<>>

C25_LinesBehindLastWarning ==
    /\ warning_result.kind = "return" =>
          \E k \in 0..Len(warning_lines) :
              LET rest == SubSeq(warning_lines, k + 1, Len(warning_lines)) IN
              /\ k > 0 => C25_IsWarning(warning_lines[k])
              /\ \A j \in 1..Len(rest) : ~C25_IsWarning(rest[j])
              /\ warning_result.value = IF rest = <<<<>>>> THEN <<>> ELSE rest
    /\ (warning_raise.kind # "none" /\ C25_OnlyWarnings)
          => warning_raise = Returned(<<>>)

\* a warning and an empty line: nothing is left and nothing is raised
C25_OnlyWarningsNotRaised ==
    /\ warning_lines = << <<"*", "W", "A", "R", "N", "I", "N", "G", "*", " ", "x">>, <<>> >>
    /\ warning_result.kind = "return"
    /\ warning_result.value = <<>>
    /\ warning_raise = Returned(<<>>)

(***************************************************************************)
(* C26.  copy_layer_from with other_can_be_smaller = False raises          *)
(* MissingFilesException, and runs no script, whenever a file of this      *)
(* collection, taken relative to this collection's prefix, has no          *)
(* counterpart among the files of the other collection taken relative to   *)
(* the other collection's prefix.                                          *)
(***************************************************************************)
C26_Uncovered ==
    WithoutPrefix(collections.this, get_prefix(collections.this, collections.dirs))
        \ WithoutPrefix(collections.other, get_prefix(collections.other, collections.dirs))

C26_MissingFilesRaise ==
    (/\ copy_result.kind # "none"
     /\ ~collections.other_can_be_smaller
     /\ C26_Uncovered # {})
        => /\ copy_result.kind = "MissingFilesException"
           /\ invocations = 0

\* d/a and d/b are to get the layer from s/a alone: the script is run
C26_SmallerOtherNotNoticed ==
    /\ collections.this = << <<"d", "/", "a">>, <<"d", "/", "b">> >>
    /\ collections.other = << <<"s", "/", "a">> >>
    /\ ~collections.other_can_be_smaller
    /\ copy_result.kind = "script"
    /\ invocations = 1
    /\ gimp_process.state = "running"

(***************************************************************************)
(* C27.  _file_to_execute is None whenever no execute_file call is in      *)
(* progress: it is reset when execute_file returns and when it raises.     *)
(* So in any sequence of calls on one runner the error of a plain execute  *)
(* never has its anonymous source replaced by the path of a file.          *)
(***************************************************************************)
C27_ExecuteFileInProgress ==
    /\ request.entry = "execute_file"
    /\ pc \notin {"idle", "returned", "raised"}

C27_FileOnlyDuringExecuteFile ==
    /\ ~C27_ExecuteFileInProgress => file_to_execute = "None"
    /\ (request.entry = "execute" /\ pc = "raised") => SCRIPT_FILE \notin Range(outcome.value)

\* a second call, a plain execute, has raised the error of its script, the
\* anonymous source still in it
C27_ExecuteErrorKeepsAnonymousSource ==
    /\ invocations = 2
    /\ request.entry = "execute"
    /\ pc = "raised"
    /\ outcome.kind = "GimpScriptException"
    /\ Occurrences(outcome.value, ANONYMOUS_SOURCE) # {}
    /\ file_to_execute = "None"

C29_Idempotent ==
    /\ strip_result.kind = "return" => ~StartsWith(strip_result.value, GIMP_WARNING_START)
    /\ strip_again # NotCalled => strip_again = strip_result

\* two warnings were stripped from a payload that has the tag of a warning in
\* it, and the second application gave the payload again
C29_StrippedTwice ==
    /\ strip_input = Repeat(WarningBlock, 2) \o GimpTag \o <<"x">> \o <<NL>> \o GimpTag
    /\ strip_result = Returned(GimpTag \o <<"x">> \o <<NL>> \o GimpTag)
    /\ strip_again = strip_result

(***************************************************************************)
(* C30.  strip_gimp_warnings raises GimpException exactly when the input   *)
(* begins with the warning marker and no newline follows the last warning  *)
(* block; every other input gives a suffix of the input, and an input      *)
(* that does not begin with the marker is returned unchanged.              *)
(*                                                                         *)
(* As the code has it: the newline is looked for from index p + 8 on,      *)
(* p being the index of the last '\n\n(gimp:' that starts at index 8 or    *)
(* later, or 0 when there is none.                                         *)
(***************************************************************************)
C30_HasNewlineFrom(text, from) == \E i \in (from + 1)..Len(text) : text[i] = NL

C30_IsSuffix(text, of) == \E k \in 0..Len(of) : text = SliceFrom(of, k)

C30_LastBlock ==
    LET later == {p \in Occurrences(strip_input, to_find) : p >= Len(to_find)}
    IN  IF later = {} THEN 0 ELSE MaxOf(later)

C30_RaisesWithoutNewlineFromSearchStart ==
    strip_result # NotCalled =>
        /\ IsRaise(strip_result) <=>
              /\ StartsWith(strip_input, GIMP_WARNING_START)
              /\ ~C30_HasNewlineFrom(strip_input, C30_LastBlock + Len(to_find))
        /\ IsRaise(strip_result) => strip_result = Raised("GimpException", NO_OUTPUT_START)
        /\ ~IsRaise(strip_result) =>
              /\ strip_result.kind = "return"
              /\ C30_IsSuffix(strip_result.value, strip_input)
        /\ ~StartsWith(strip_input, GIMP_WARNING_START) => strip_result = Returned(strip_input)

\* the statement as it stands: the last warning block is where the marker
\* occurs last, and the newline may come anywhere behind that marker
C30_LastMarkerEnd ==
    MaxOf(Occurrences(strip_input, GIMP_WARNING_START)) + Len(GIMP_WARNING_START)

C30_RaisesWithoutNewlineBehindLastBlock ==
    strip_result # NotCalled =>
        (IsRaise(strip_result) <=>
            /\ StartsWith(strip_input, GIMP_WARNING_START)
            /\ ~C30_HasNewlineFrom(strip_input, C30_LastMarkerEnd))

\* two warnings and a payload without newline: raised
C30_RaisedForUnterminatedPayload ==
    /\ strip_input = WarningBlock \o <<NL>> \o GimpTag \o <<"x">>
    /\ strip_result = Raised("GimpException", NO_OUTPUT_START)

====
